---- MODULE Spec2Model ----
(***************************************************************************)
(* A model of the YAHF request dispatcher (src/src/yahf.js, class YAHF):   *)
(* route registration, the middleware chain, route matching with          *)
(* URLPattern, handler invocation and the response written on every path. *)
(*                                                                         *)
(* Strings that the code inspects are sequences of tokens: a method is a   *)
(* sequence of letters, a path or a URL is a sequence of "/" separators,   *)
(* segment texts, ":name" parameter tokens and a "?" that starts the       *)
(* query.  Two adjacent "/" tokens stand for an empty segment.             *)
(***************************************************************************)
EXTENDS Integers, Sequences, FiniteSets, TLC

VARIABLES routes, middlewares, regLog, reqs, logged, stream, server

vars == <<routes, middlewares, regLog, reqs, logged, stream, server>>

(***************************************************************************)
(* `logged` is what the configured logger has been called with.  Nothing   *)
(* on the request path calls the logger.  `stream` is the body stream of   *)
(* one request at the level of bytes: what is still to come, what the      *)
(* StringDecoder holds back and what #requestInit has accumulated.         *)
(* `server` is the HTTP server of the instance: whether it has a listening *)
(* handle, the events it has scheduled for the next tick, in order, and    *)
(* the promises that start() and kill() have returned.                     *)
(***************************************************************************)

(***************************************************************************)
(* Bounds of the exploration.                                              *)
(***************************************************************************)
MaxRoutes == 2

MaxChainRoutes == 1

MaxMiddlewares == 2

MaxChars == 3

MaxStarts == 2

MaxKills == 2

MaxLiveMiddlewares == 1

MaxLateRoutes == 3

MaxLateMiddlewares == 3

(***************************************************************************)
(* Program constants.                                                      *)
(***************************************************************************)
CONTENT_TYPES == [JSON |-> "application/json"]

Undefined == "undefined"

Slash == "/"

QueryMark == "?"

(***************************************************************************)
(* String.prototype.toUpperCase on a sequence of letters.                  *)
(***************************************************************************)
LowerLetters == <<"e", "g", "o", "p", "s", "t">>

UpperLetters == <<"E", "G", "O", "P", "S", "T">>

UpperChar(c) ==
    IF \E i \in DOMAIN LowerLetters : LowerLetters[i] = c
    THEN UpperLetters[CHOOSE i \in DOMAIN LowerLetters : LowerLetters[i] = c]
    ELSE c

toUpperCase(method) == [i \in DOMAIN method |-> UpperChar(method[i])]

(***************************************************************************)
(* YAHF.#normalizePath: prepend "/" unless the path starts with one.       *)
(***************************************************************************)
startsWithSlash(path) == Len(path) >= 1 /\ path[1] = Slash

(* The path left as given. *)
KeepPath(path) == path

normalizePath(path) == IF startsWithSlash(path) THEN path ELSE <<Slash>> \o path

(***************************************************************************)
(* URLPattern over the pathname component.  A ":name" token is a named     *)
(* group that matches exactly one non-empty segment; every other token     *)
(* matches itself.  The compiled pattern is anchored at both ends.         *)
(***************************************************************************)
ParamName == (":id" :> "id") @@ (":a" :> "a") @@ (":b" :> "b")

IsParam(tok) == tok \in DOMAIN ParamName

ParamPositions(pattern) == {i \in DOMAIN pattern : IsParam(pattern[i])}

URLPattern(pathname) == [pathname |-> pathname]

TokenMatches(ptok, tok) == IF IsParam(ptok) THEN tok # Slash ELSE ptok = tok

(* A pattern anchored at the start only. *)
PrefixTest(pattern, path) ==
    /\ Len(pattern.pathname) <= Len(path)
    /\ \A i \in DOMAIN pattern.pathname : TokenMatches(pattern.pathname[i], path[i])

Test(pattern, path) ==
    /\ Len(pattern.pathname) = Len(path)
    /\ \A i \in DOMAIN path : TokenMatches(pattern.pathname[i], path[i])

NoGroups == [n \in {} |-> Undefined]

(* Groups that all take the first token of the path. *)
ShiftedGroups(pattern, path) ==
    [n \in {ParamName[pattern.pathname[i]] : i \in ParamPositions(pattern.pathname)} |->
        path[1]]

Groups(pattern, path) ==
    [n \in {ParamName[pattern.pathname[i]] : i \in ParamPositions(pattern.pathname)} |->
        path[CHOOSE i \in ParamPositions(pattern.pathname) :
                 ParamName[pattern.pathname[i]] = n]]

Exec(pattern, path) == IF Test(pattern, path) THEN Groups(pattern, path) ELSE Undefined

(***************************************************************************)
(* Array.prototype.find over a method's route list: the first entry, in    *)
(* list order, whose pattern tests true; 0 stands for undefined.           *)
(***************************************************************************)
Matching(methodRoutes, path) ==
    {i \in DOMAIN methodRoutes : Test(methodRoutes[i].pattern, path)}

(* The last matching entry instead of the first. *)
FindLast(methodRoutes, path) ==
    IF Matching(methodRoutes, path) = {} THEN 0
    ELSE CHOOSE i \in Matching(methodRoutes, path) :
             \A j \in Matching(methodRoutes, path) : j <= i

Find(methodRoutes, path) ==
    IF Matching(methodRoutes, path) = {} THEN 0
    ELSE CHOOSE i \in Matching(methodRoutes, path) :
             \A j \in Matching(methodRoutes, path) : i <= j

(***************************************************************************)
(* this.#routes[key] || []                                                 *)
(***************************************************************************)
(* The list of some method, whatever the key. *)
AnyMethodRoutes(key) ==
    IF DOMAIN routes = {} THEN <<>> ELSE routes[CHOOSE k \in DOMAIN routes : TRUE]

RoutesOf(key) == IF key \in DOMAIN routes THEN routes[key] ELSE <<>>

(***************************************************************************)
(* Array.prototype.unshift and Array.prototype.push.                       *)
(***************************************************************************)
Push(list, entry) == Append(list, entry)

(* An entry that takes the place of the entries with its pattern. *)
UnshiftUnique(list, entry) ==
    <<entry>> \o SelectSeq(list, LAMBDA old : old.pattern # entry.pattern)

Unshift(list, entry) == <<entry>> \o list

(***************************************************************************)
(* new URL(req.url, base).pathname for an origin-form or network-path      *)
(* request target: the query is cut off, the path of an http URL always    *)
(* starts with "/", and a network-path reference with an empty host is an  *)
(* invalid URL.                                                            *)
(***************************************************************************)
BeforeQuery(url) ==
    IF \E i \in DOMAIN url : url[i] = QueryMark
    THEN SubSeq(url, 1, (CHOOSE i \in DOMAIN url :
                            url[i] = QueryMark /\ \A j \in 1..(i - 1) : url[j] # QueryMark) - 1)
    ELSE url

IsNetworkPath(url) == Len(url) >= 2 /\ url[1] = Slash /\ url[2] = Slash

UrlIsValid(url) ==
    IsNetworkPath(url) => (Len(url) >= 3 /\ url[3] \notin {Slash, QueryMark})

Pathname(url) ==
    LET p == BeforeQuery(url)
        q == IF IsNetworkPath(url) THEN SubSeq(p, 4, Len(p)) ELSE p
    IN IF startsWithSlash(q) THEN q ELSE <<Slash>> \o q

(***************************************************************************)
(* The functions the embedding application registers.  A middleware        *)
(* either returns (a value or a promise that fulfils) or raises (throws    *)
(* while it is called, or returns a promise that rejects); a handler       *)
(* likewise, and what it returns is its handler result.                    *)
(***************************************************************************)
Middlewares == {"mwSync", "mwAsync", "mwThrow", "mwReject"}

Handlers ==
    {"hEcho", "hBare", "hThrow", "hReject", "hPayload", "hStatus", "hObject", "hArray",
     "hNumber", "hString", "hPlainHeader", "hMulti", "hHeaders", "hObjectHeader"}

(***************************************************************************)
(* The middleware that `new BodyParser()` returns                          *)
(* (src/src/middlewares/bodyParser.js).  #parse reads the content-type     *)
(* header, "plain/text" when there is none, and goes to #parseText for     *)
(* CONTENT_TYPES.TEXT and to #parseJSON for everything else; CONTENT_TYPES *)
(* has no TEXT, so no content type equals it.  Either parser subscribes    *)
(* to data.req inside a promise executor; the request context has no       *)
(* `req`, so the executor throws and the promise is rejected.              *)
(***************************************************************************)
BodyParser == "bodyParser"

Header(headers, name) ==
    IF \E h \in headers : h[1] = name
    THEN (CHOOSE h \in headers : h[1] = name)[2]
    ELSE Undefined

Parse(data) ==
    LET header == Header(data.headers, "content-type")
        contentType == IF header = Undefined THEN "plain/text" ELSE header
    IN IF "TEXT" \in DOMAIN CONTENT_TYPES /\ contentType = CONTENT_TYPES["TEXT"]
       THEN "parseText"
       ELSE "parseJSON"

BodyParserMessage == "Cannot read properties of undefined (reading 'on')"

MiddlewareThrows(m) == m = "mwThrow"

(* A chain that takes every settled promise as fulfilled. *)
IgnoresRejection(m) == FALSE

MiddlewareRejects(m) == m \in {"mwReject", BodyParser}

HandlerThrows(h) == h = "hThrow"

HandlerRejects(h) == h = "hReject"

MiddlewareMessage == "boom"

RaiseMessage(m) == IF m = BodyParser THEN BodyParserMessage ELSE MiddlewareMessage

HandlerMessage == "kaboom"

InvalidUrlMessage == "Invalid URL"

StreamMessage == "aborted"

(***************************************************************************)
(* JavaScript values that a payload can be.  A string is itself; the       *)
(* values that are not strings are the object { hello: "world" }, the      *)
(* array [1, 2] and the number 42.  res.end(chunk) writes a string, ends   *)
(* without a body for a falsy chunk and throws a TypeError for any other   *)
(* chunk that is not a string or a buffer.                                 *)
(***************************************************************************)
ObjectValue == "object {hello: world}"

ArrayValue == "array [1, 2]"

NumberValue == "number 42"

NonStrings == {ObjectValue, ArrayValue, NumberValue}

InvalidChunkMessage == "The \"chunk\" argument must be of type string or an instance of Buffer or Uint8Array"

(***************************************************************************)
(* The `headers` of a handler result: absent, a plain object whose own     *)
(* keys map to a string or to a list of strings (a value is the sequence   *)
(* of its strings), or an instance of the Headers class.  `for (key in     *)
(* headers)` walks the own keys of a plain object; on a Headers instance   *)
(* it walks the methods of the class, the entries not being properties,    *)
(* and setHeader rejects a function as a header value.                     *)
(***************************************************************************)
NoHeaders == [kind |-> "none", entries |-> <<>>]

PlainHeaders(entries) == [kind |-> "object", entries |-> entries]

HeadersInstance(entries) == [kind |-> "Headers", entries |-> entries]

OhNo == <<"oh-no", <<"this is a test">>>>

XMulti == <<"x-multi", <<"alpha", "beta">>>>

InvalidHeaderMessage == "Invalid character in header content [\"append\"]"

(***************************************************************************)
(* A handler result; a falsy statusCode is 0 and a falsy contentType is    *)
(* "", which is how `handlerResult?.x || default` reads an absent field    *)
(* or an undefined result.                                                 *)
(***************************************************************************)
UndefinedResult ==
    [statusCode |-> 0, contentType |-> "", payload |-> Undefined, headers |-> NoHeaders]

notFound ==
    [statusCode |-> 404, contentType |-> CONTENT_TYPES.JSON, payload |-> Undefined,
     headers |-> NoHeaders]

HandlerResult(h, arg) ==
    CASE h = "hEcho" ->
             [UndefinedResult EXCEPT !.statusCode = 201, !.contentType = "text/plain",
                                     !.payload = arg.payload]
      [] h = "hPayload" -> [UndefinedResult EXCEPT !.payload = arg.payload]
      [] h = "hStatus" -> [UndefinedResult EXCEPT !.statusCode = 201]
      [] h = "hObject" -> [UndefinedResult EXCEPT !.payload = ObjectValue]
      [] h = "hArray" ->
             [UndefinedResult EXCEPT !.contentType = CONTENT_TYPES.JSON,
                                     !.payload = ArrayValue]
      [] h = "hNumber" ->
             [UndefinedResult EXCEPT !.statusCode = 200, !.payload = NumberValue]
      [] h = "hString" ->
             [UndefinedResult EXCEPT !.contentType = CONTENT_TYPES.JSON,
                                     !.payload = "world"]
      [] h = "hPlainHeader" ->
             [UndefinedResult EXCEPT !.payload = "ok", !.headers = PlainHeaders(<<OhNo>>)]
      [] h = "hMulti" ->
             [UndefinedResult EXCEPT !.statusCode = 200, !.contentType = "text/plain",
                                     !.payload = "ok",
                                     !.headers = PlainHeaders(<<XMulti, OhNo>>)]
      [] h = "hHeaders" ->
             [UndefinedResult EXCEPT !.statusCode = 201, !.contentType = "text/plain",
                                     !.payload = arg.payload,
                                     !.headers = HeadersInstance(<<OhNo>>)]
      [] h = "hObjectHeader" ->
             [UndefinedResult EXCEPT !.statusCode = 201, !.contentType = "text/plain",
                                     !.payload = ObjectValue,
                                     !.headers = PlainHeaders(<<XMulti, OhNo>>)]
      [] OTHER -> UndefinedResult

(***************************************************************************)
(* Per-request state: the position of #handleRequest, the raw request, the *)
(* request context `data`, the response object `res`, and a trace of what  *)
(* has been invoked for the request.                                       *)
(***************************************************************************)
Slots == {"r1", "r2"}

NoData == [path |-> <<>>, method |-> <<>>, headers |-> {}, payload |-> Undefined]

NoArg ==
    [path |-> <<>>, method |-> <<>>, headers |-> {}, payload |-> Undefined,
     groups |-> NoGroups]

NoPending == [rejected |-> FALSE, value |-> UndefinedResult]

NewResponse ==
    [statusCode |-> 200, contentType |-> "", headers |-> {}, body |-> "", ends |-> 0]

IdleRequest ==
    [pc |-> "idle", url |-> <<>>, method |-> <<>>, headers |-> {}, body |-> "",
     buffer |-> "",
     data |-> NoData, idx |-> 0,
     arg |-> NoArg, pending |-> NoPending, res |-> NewResponse, trace |-> <<>>,
     matched |-> 0, regsSeen |-> 0, mwsSeen |-> 0]

(***************************************************************************)
(* What a middleware does to the request context: the synchronous one      *)
(* assigns data.payload while it is called, the asynchronous one when its  *)
(* promise fulfils.                                                        *)
(***************************************************************************)
OnCall(m, data) == IF m = "mwSync" THEN [data EXCEPT !.payload = "mwSync"] ELSE data

OnFulfil(m, data) == IF m = "mwAsync" THEN [data EXCEPT !.payload = "mwAsync"] ELSE data

(***************************************************************************)
(* The catch block of #handleRequest: res.statusCode = 500;                *)
(* res.end(err?.message).                                                  *)
(***************************************************************************)
(* A catch block that does not end the response. *)
CatchWithoutEnd(q, message) ==
    [q EXCEPT !.pc = "failed", !.res = [@ EXCEPT !.statusCode = 500]]

(* A catch block that ends the response as it stands. *)
CatchQuietly(q, message) ==
    [q EXCEPT !.pc = "done",
              !.res = [@ EXCEPT !.ends = @ + 1],
              !.trace = Append(@, <<"end", "catch">>)]

(* A catch block that answers with a response without headers. *)
CatchCleared(q, message) ==
    [q EXCEPT !.pc = "done",
              !.res = [NewResponse EXCEPT !.statusCode = 500, !.body = message,
                                          !.ends = q.res.ends + 1],
              !.trace = Append(@, <<"end", "catch">>)]

Catch(q, message) ==
    [q EXCEPT !.pc = "done",
              !.res = [@ EXCEPT !.statusCode = 500, !.body = message, !.ends = @ + 1],
              !.trace = Append(@, <<"end", "catch">>)]

(***************************************************************************)
(* Sending the response for a settled handler result: the status, the      *)
(* Content-Type header, the headers of the result, then res.end(payload).  *)
(* Nothing is put on the wire before res.end; a setHeader or a res.end     *)
(* that throws leaves what was set so far on `res` and goes to the catch   *)
(* block.                                                                  *)
(***************************************************************************)
(* The text of the value, whatever the value. *)
TextOf(chunk) == chunk

(* What res.end(chunk) puts in the body: nothing for undefined (and for the *)
(* empty string), the characters of a string as they are.                  *)
Written(chunk) == IF chunk = Undefined THEN "" ELSE chunk

(* A response that is ended before the error of the write is raised. *)
EndThenRaise(q, handlerResult) ==
    Catch([q EXCEPT !.res.ends = @ + 1, !.trace = Append(@, <<"end", "send">>)],
          InvalidChunkMessage)

Send(q, handlerResult) ==
    LET named == [q EXCEPT !.res.statusCode = IF handlerResult.statusCode # 0
                                               THEN handlerResult.statusCode ELSE 200,
                           !.res.contentType = IF handlerResult.contentType # ""
                                                THEN handlerResult.contentType
                                                ELSE CONTENT_TYPES.JSON]
        entries == handlerResult.headers.entries
        headed == [named EXCEPT !.res.headers = @ \cup {entries[i] : i \in DOMAIN entries}]
    IN IF handlerResult.headers.kind = "Headers"
       THEN Catch([named EXCEPT !.trace = Append(@, <<"error", "setHeader">>)],
                  InvalidHeaderMessage)
       ELSE IF handlerResult.payload \in NonStrings
            THEN Catch([headed EXCEPT !.trace = Append(@, <<"error", "end">>)],
                       InvalidChunkMessage)
            ELSE [headed EXCEPT !.pc = "done",
                                !.res.body = Written(handlerResult.payload),
                                !.res.ends = @ + 1,
                                !.trace = Append(@, <<"end", "send">>)]

(***************************************************************************)
(* Route lookup and #getHandlerResponse, run in the same turn as the end   *)
(* of the middleware loop.  The value it returns is awaited.               *)
(***************************************************************************)
(* A new context that has the groups and nothing of the request. *)
OnlyGroups(data, groups) == [NoArg EXCEPT !.groups = groups]

(* { ...data, groups } *)
Extended(data, groups) ==
    [path |-> data.path, method |-> data.method, headers |-> data.headers,
     payload |-> data.payload, groups |-> groups]

GetHandlerResponse(q) ==
    LET methodRoutes == RoutesOf(q.data.method)
        found == Find(methodRoutes, q.data.path)
        seen == [q EXCEPT !.matched = found,
                          !.regsSeen = Len(regLog),
                          !.mwsSeen = Len(middlewares),
                          !.trace = Append(@, <<"match", IF found = 0 THEN "none"
                                                                        ELSE "route">>)]
    IN IF found = 0
       THEN [seen EXCEPT !.pc = "handlerAwait",
                         !.pending = [rejected |-> FALSE, value |-> notFound]]
       ELSE LET route == methodRoutes[found]
                arg == Extended(q.data, Exec(route.pattern, q.data.path))
                called == [seen EXCEPT !.arg = arg,
                                       !.trace = Append(@, <<"handler", route.handler>>)]
            IN IF HandlerThrows(route.handler)
               THEN Catch(called, HandlerMessage)
               ELSE [called EXCEPT !.pc = "handlerAwait",
                                   !.pending = [rejected |-> HandlerRejects(route.handler),
                                                value |-> HandlerResult(route.handler, arg)]]

(***************************************************************************)
(* One turn of `for (const middleware of this.#middlewares)` starting at   *)
(* index i: the array iterator reads the live array, calls the middleware  *)
(* and awaits what it returns; past the end, the request is dispatched.    *)
(***************************************************************************)
(* The loop without its await: the middleware is called and the request  *)
(* is dispatched in the same turn.                                        *)
RunWithoutAwait(q, i) ==
    IF i <= Len(middlewares)
    THEN GetHandlerResponse([q EXCEPT !.idx = i,
                                      !.trace = Append(@, <<"mw", middlewares[i]>>)])
    ELSE GetHandlerResponse(q)

(* Dispatch without running the chain. *)
SkipChain(q, i) == GetHandlerResponse(q)

(* The loop over a chain that ends after its first middleware. *)
RunFirstOnly(q, i) ==
    IF i = 1 /\ i <= Len(middlewares)
    THEN [q EXCEPT !.idx = i, !.pc = "mwAwait",
                   !.data = OnCall(middlewares[i], @),
                   !.trace = Append(@, <<"mw", middlewares[i]>>)]
    ELSE GetHandlerResponse(q)

RunFrom(q, i) ==
    IF i <= Len(middlewares)
    THEN LET m == middlewares[i]
             called == [q EXCEPT !.idx = i, !.trace = Append(@, <<"mw", m>>)]
         IN IF MiddlewareThrows(m)
            THEN Catch([called EXCEPT !.trace = Append(@, <<"raised", m>>)],
                       RaiseMessage(m))
            ELSE [called EXCEPT !.pc = "mwAwait", !.data = OnCall(m, @),
                                !.trace = IF m = BodyParser
                                          THEN Append(@, <<"parser", Parse(q.data)>>)
                                          ELSE @]
    ELSE GetHandlerResponse(q)

(***************************************************************************)
(* addHandler({ path, method, handler })                                   *)
(***************************************************************************)
AddHandler(path, method, handler) ==
    /\ LET normalizedMethod == toUpperCase(method)
           pattern == URLPattern(normalizePath(path))
           entry == [pattern |-> pattern, handler |-> handler]
       IN routes' = [k \in DOMAIN routes \cup {normalizedMethod} |->
                        IF k = normalizedMethod
                        THEN Unshift(RoutesOf(normalizedMethod), entry)
                        ELSE routes[k]]
    /\ regLog' = Append(regLog, [path |-> path, method |-> method, handler |-> handler])
    /\ UNCHANGED <<middlewares, reqs, logged, stream, server>>

(***************************************************************************)
(* useMiddleware(middleware)                                               *)
(***************************************************************************)
UseMiddleware(middleware) ==
    /\ middlewares' = Push(middlewares, middleware)
    /\ UNCHANGED <<routes, regLog, reqs, logged, stream, server>>

(***************************************************************************)
(* The life of the server.  createServer() in the constructor makes a      *)
(* server without a handle.  listen(port, cb) throws when there is a       *)
(* handle; otherwise it registers cb for the next "listening" event and    *)
(* binds at once: with a handle it schedules "listening" for the next      *)
(* tick, which is emitted if the handle is still there, and without one    *)
(* it schedules "error", for which the instance has no listener.           *)
(* close(cb) registers cb for the next "close" event, with the error       *)
(* ERR_SERVER_NOT_RUNNING when there is no handle, closes the handle and   *)
(* has "close" emitted when no connection is left.                         *)
(***************************************************************************)
This == "this"

StartedLine == "Started YAHF. Listening on"

Bound == "bound"

AddressInUse == "EADDRINUSE"

AlreadyListen == "ERR_SERVER_ALREADY_LISTEN"

NotRunning == "ERR_SERVER_NOT_RUNNING"

NewServer ==
    [handle |-> FALSE, ticks |-> <<>>, crashed |-> FALSE, life |-> "new",
     starts |-> <<>>, kills |-> <<>>]

NewPromise ==
    [state |-> "pending", value |-> Undefined, life |-> "new", handle |-> FALSE,
     bind |-> "", line |-> 0, listening |-> FALSE]

NoConnections == \A r \in DOMAIN reqs : reqs[r].pc \in {"idle", "done"}

Tick(event) == server.ticks # <<>> /\ Head(server.ticks) = event

Scheduled(event) == \E i \in DOMAIN server.ticks : server.ticks[i] = event

(* A server that takes one request at a time.                              *)
AcceptingWhenFree ==
    /\ ~server.crashed
    /\ server.handle
    /\ server.ticks = <<>>
    /\ NoConnections

Accepting ==
    /\ ~server.crashed
    /\ server.handle
    /\ server.ticks = <<>>

Pending(promises) == {i \in DOMAIN promises : promises[i].state = "pending"}

(***************************************************************************)
(* start(): new Promise((resolve) => server.listen(port, callback)).       *)
(* `bind` is what binding the port gives.                                  *)
(***************************************************************************)
Start(bind) ==
    /\ ~server.crashed
    /\ LET promise == [NewPromise EXCEPT !.life = server.life, !.handle = server.handle]
       IN server' =
             IF server.handle
             THEN [server EXCEPT
                      !.starts = Append(@, [promise EXCEPT !.state = "rejected",
                                                           !.value = AlreadyListen])]
             ELSE IF bind = Bound
             THEN [server EXCEPT
                      !.handle = TRUE, !.ticks = Append(@, "listening"), !.life = "starting",
                      !.starts = Append(@, [promise EXCEPT !.bind = bind])]
             ELSE [server EXCEPT
                      !.ticks = Append(@, "error"), !.life = "starting",
                      !.starts = Append(@, [promise EXCEPT !.bind = bind])]
    /\ UNCHANGED <<routes, middlewares, regLog, reqs, logged, stream>>

(***************************************************************************)
(* The tick after a bind: "listening" is emitted if the handle is there,   *)
(* and every callback registered for it calls the logger and then          *)
(* resolves its promise with the instance.                                 *)
(***************************************************************************)
(* The callback resolves without calling the logger.                       *)
ListeningUnlogged ==
    /\ ~server.crashed
    /\ Tick("listening")
    /\ server' = [server EXCEPT
                     !.ticks = Tail(@),
                     !.life = IF server.handle THEN "started" ELSE @,
                     !.starts = [i \in DOMAIN server.starts |->
                                    IF server.handle /\ i \in Pending(server.starts)
                                    THEN [server.starts[i] EXCEPT
                                             !.state = "resolved", !.value = This,
                                             !.listening = server.handle]
                                    ELSE server.starts[i]]]
    /\ UNCHANGED <<routes, middlewares, regLog, reqs, logged, stream>>

Listening ==
    /\ ~server.crashed
    /\ Tick("listening")
    /\ LET called == IF server.handle THEN Pending(server.starts) ELSE {}
           Rank(i) == Cardinality({j \in called : j <= i})
       IN /\ logged' = logged \o [k \in 1..Cardinality(called) |-> StartedLine]
          /\ server' = [server EXCEPT
                           !.ticks = Tail(@),
                           !.life = IF called # {} THEN "started" ELSE @,
                           !.starts = [i \in DOMAIN server.starts |->
                                          IF i \in called
                                          THEN [server.starts[i] EXCEPT
                                                   !.state = "resolved", !.value = This,
                                                   !.line = Len(logged) + Rank(i),
                                                   !.listening = server.handle]
                                          ELSE server.starts[i]]]
    /\ UNCHANGED <<routes, middlewares, regLog, reqs, stream>>

(***************************************************************************)
(* The tick after a bind that failed: "error" is emitted on a server with  *)
(* no listener for it, which is an uncaught exception.  No callback of     *)
(* start() is called.                                                      *)
(***************************************************************************)
BindError ==
    /\ ~server.crashed
    /\ Tick("error")
    /\ server' = [server EXCEPT !.ticks = Tail(@), !.crashed = TRUE]
    /\ UNCHANGED <<routes, middlewares, regLog, reqs, logged, stream>>

(***************************************************************************)
(* kill(): new Promise((resolve, reject) => server.close((err) => ...)).   *)
(* `value` is what the callback will be called with.                       *)
(***************************************************************************)
(* close(cb) that registers cb itself whether or not there is a handle.    *)
KillResolves ==
    /\ ~server.crashed
    /\ server' = [server EXCEPT
                     !.handle = FALSE,
                     !.ticks = IF NoConnections THEN Append(@, "close") ELSE @,
                     !.kills = Append(@, [NewPromise EXCEPT
                                             !.life = server.life,
                                             !.handle = server.handle])]
    /\ UNCHANGED <<routes, middlewares, regLog, reqs, logged, stream>>

Kill ==
    /\ ~server.crashed
    /\ server' = [server EXCEPT
                     !.handle = FALSE,
                     !.ticks = IF NoConnections THEN Append(@, "close") ELSE @,
                     !.kills = Append(@, [NewPromise EXCEPT
                                             !.value = IF server.handle THEN Undefined
                                                       ELSE NotRunning,
                                             !.life = server.life,
                                             !.handle = server.handle])]
    /\ UNCHANGED <<routes, middlewares, regLog, reqs, logged, stream>>

(***************************************************************************)
(* "close": emitted on the tick after close() when no connection is open,  *)
(* or else when the last connection of a server without a handle closes.   *)
(* if (err) reject(err); else resolve().                                   *)
(***************************************************************************)
(* Every callback is called without an error.                              *)
ClosedResolves ==
    /\ ~server.crashed
    /\ \/ Tick("close")
       \/ /\ server.ticks = <<>>
          /\ ~server.handle /\ NoConnections /\ Pending(server.kills) # {}
    /\ server' = [server EXCEPT
                     !.ticks = IF Tick("close") THEN Tail(@) ELSE @,
                     !.life = IF @ = "started" /\ ~server.handle THEN "stopped" ELSE @,
                     !.kills = [i \in DOMAIN server.kills |->
                                   [server.kills[i] EXCEPT
                                       !.state = IF @ = "pending" THEN "resolved" ELSE @]]]
    /\ UNCHANGED <<routes, middlewares, regLog, reqs, logged, stream>>

Closed ==
    /\ ~server.crashed
    /\ \/ Tick("close")
       \/ /\ server.ticks = <<>>
          /\ ~server.handle /\ NoConnections /\ Pending(server.kills) # {}
    /\ LET called == Pending(server.kills)
       IN server' = [server EXCEPT
                        !.ticks = IF Tick("close") THEN Tail(@) ELSE @,
                        !.life = IF /\ @ = "started" /\ ~server.handle
                                    /\ \E i \in called : server.kills[i].value = Undefined
                                 THEN "stopped" ELSE @,
                        !.kills = [i \in DOMAIN server.kills |->
                                      IF i \in called
                                      THEN [server.kills[i] EXCEPT
                                               !.state = IF server.kills[i].value = Undefined
                                                         THEN "resolved" ELSE "rejected"]
                                      ELSE server.kills[i]]]
    /\ UNCHANGED <<routes, middlewares, regLog, reqs, logged, stream>>

(***************************************************************************)
(* The server's "request" event: #handleRequest starts and #requestInit    *)
(* parses the URL and subscribes to the body stream.  An invalid URL       *)
(* rejects the promise, which the catch block answers.  The server emits   *)
(* the event for a connection it has accepted, which it does while it has  *)
(* a listening handle, after the events of the current tick.               *)
(***************************************************************************)
Request(r, url, method, headers, body) ==
    /\ Accepting
    /\ reqs[r].pc = "idle"
    /\ LET q == [reqs[r] EXCEPT !.url = url, !.method = method,
                                !.headers = headers, !.body = body]
       IN reqs' = [reqs EXCEPT ![r] =
                      IF UrlIsValid(url)
                      THEN [q EXCEPT !.pc = "reading"]
                      ELSE Catch([q EXCEPT !.trace = Append(@, <<"error", "url">>)],
                                 InvalidUrlMessage)]
    /\ UNCHANGED <<routes, middlewares, regLog, logged, stream, server>>

(***************************************************************************)
(* The body stream's "data" event: the text of the body is appended to     *)
(* the local `payload` of #requestInit (the buffer).  The body comes in    *)
(* one piece here.                                                         *)
(***************************************************************************)
RequestData(r) ==
    /\ reqs[r].pc = "reading"
    /\ reqs[r].buffer # reqs[r].body
    /\ reqs' = [reqs EXCEPT ![r].buffer = reqs[r].body]
    /\ UNCHANGED <<routes, middlewares, regLog, logged, stream, server>>

(***************************************************************************)
(* The body stream's "end" event, after all the data: the request context  *)
(* is built, with the text accumulated from the "data" events as its       *)
(* payload, the promise resolves and #handleRequest runs on to its next    *)
(* await.                                                                  *)
(***************************************************************************)
RequestEnd(r) ==
    /\ reqs[r].pc = "reading"
    /\ reqs[r].buffer = reqs[r].body
    /\ LET data == [path |-> normalizePath(Pathname(reqs[r].url)),
                    method |-> reqs[r].method,
                    headers |-> reqs[r].headers,
                    payload |-> reqs[r].buffer]
       IN reqs' = [reqs EXCEPT ![r] = RunFrom([reqs[r] EXCEPT !.data = data], 1)]
    /\ UNCHANGED <<routes, middlewares, regLog, logged, stream, server>>

(***************************************************************************)
(* The body stream's "error" event: the promise rejects.                   *)
(***************************************************************************)
(* An "error" listener that resolves with what has been received. *)
ResolveOnError(r) ==
    /\ reqs[r].pc = "reading"
    /\ LET q == [reqs[r] EXCEPT !.trace = Append(@, <<"error", "stream">>)]
           data == [path |-> normalizePath(Pathname(q.url)), method |-> q.method,
                    headers |-> q.headers, payload |-> q.buffer]
       IN reqs' = [reqs EXCEPT ![r] = RunFrom([q EXCEPT !.data = data], 1)]
    /\ UNCHANGED <<routes, middlewares, regLog, logged, stream, server>>

RequestError(r) ==
    /\ reqs[r].pc = "reading"
    /\ reqs' = [reqs EXCEPT ![r] =
                   Catch([reqs[r] EXCEPT !.trace = Append(@, <<"error", "stream">>)],
                         StreamMessage)]
    /\ UNCHANGED <<routes, middlewares, regLog, logged, stream, server>>

(***************************************************************************)
(* The request timeout of the server.  createServer() is called without    *)
(* options and the instance sets no timeout, so the server has the         *)
(* defaults of the platform: a request that has not been received whole    *)
(* when requestTimeout (300 s) has passed is answered by the server        *)
(* itself with 408 and its connection is closed, which fails the body      *)
(* stream; the catch block then ends a response that nobody receives.      *)
(* There is no such default once the request has been received             *)
(* (server.timeout is 0).                                                  *)
(***************************************************************************)
RequestTimeoutStatus == 408

RequestTimeout(r) ==
    /\ reqs[r].pc = "reading"
    /\ reqs' = [reqs EXCEPT ![r] =
                   [@ EXCEPT !.pc = "done",
                             !.res = [@ EXCEPT !.statusCode = RequestTimeoutStatus,
                                               !.ends = @ + 1],
                             !.trace = @ \o <<<<"error", "timeout">>, <<"end", "catch">>>>]]
    /\ UNCHANGED <<routes, middlewares, regLog, logged, stream, server>>

(***************************************************************************)
(* The value returned by the awaited middleware settles: a rejection goes  *)
(* to the catch block, a fulfilment to the next turn of the loop.          *)
(***************************************************************************)
(* One context object for all the requests: what the middleware assigns   *)
(* when it settles is assigned for every request that has a context.     *)
SettlesOnShared(r) ==
    /\ reqs[r].pc = "mwAwait"
    /\ LET q == reqs[r]
           m == middlewares[q.idx]
           shared == [s \in Slots |->
                         IF reqs[s].pc \in {"mwAwait", "handlerAwait"}
                         THEN [reqs[s] EXCEPT !.data = OnFulfil(m, @)]
                         ELSE reqs[s]]
       IN reqs' = [shared EXCEPT ![r] =
                      IF MiddlewareRejects(m)
                      THEN Catch([q EXCEPT !.trace = Append(@, <<"raised", m>>)],
                                 RaiseMessage(m))
                      ELSE RunFrom([q EXCEPT !.trace = Append(@, <<"settled", m>>),
                                             !.data = OnFulfil(m, @)],
                                   q.idx + 1)]
    /\ UNCHANGED <<routes, middlewares, regLog, logged, stream, server>>

MiddlewareSettles(r) ==
    /\ reqs[r].pc = "mwAwait"
    /\ LET q == reqs[r]
           m == middlewares[q.idx]
       IN reqs' = [reqs EXCEPT ![r] =
                      IF MiddlewareRejects(m)
                      THEN Catch([q EXCEPT !.trace = Append(@, <<"raised", m>>)],
                                 RaiseMessage(m))
                      ELSE RunFrom([q EXCEPT !.trace = Append(@, <<"settled", m>>),
                                             !.data = OnFulfil(m, @)],
                                   q.idx + 1)]
    /\ UNCHANGED <<routes, middlewares, regLog, logged, stream, server>>

(***************************************************************************)
(* The awaited handler result settles: a rejection goes to the catch       *)
(* block, a value is sent as the response.                                 *)
(***************************************************************************)
HandlerSettles(r) ==
    /\ reqs[r].pc = "handlerAwait"
    /\ LET q == reqs[r]
       IN reqs' = [reqs EXCEPT ![r] =
                      IF q.pending.rejected
                      THEN Catch(q, HandlerMessage)
                      ELSE Send(q, q.pending.value)]
    /\ UNCHANGED <<routes, middlewares, regLog, logged, stream, server>>

(***************************************************************************)
(* The accumulation of a request body in #requestInit, byte by byte.       *)
(* A text is a sequence of code points, a body the sequence of the bytes   *)
(* of its UTF-8 encoding, a chunk a piece of it.  The StringDecoder gives  *)
(* out the characters that are complete and holds back the bytes of a      *)
(* character that is not; end() gives U+FFFD for bytes still held back.    *)
(***************************************************************************)
Replacement == 65533

Utf8(codePoint) ==
    IF codePoint < 128 THEN <<codePoint>>
    ELSE IF codePoint < 2048
    THEN <<192 + (codePoint \div 64), 128 + (codePoint % 64)>>
    ELSE IF codePoint < 65536
    THEN <<224 + (codePoint \div 4096), 128 + ((codePoint \div 64) % 64),
           128 + (codePoint % 64)>>
    ELSE <<240 + (codePoint \div 262144), 128 + ((codePoint \div 4096) % 64),
           128 + ((codePoint \div 64) % 64), 128 + (codePoint % 64)>>

RECURSIVE Encode(_)
Encode(text) == IF text = <<>> THEN <<>> ELSE Utf8(Head(text)) \o Encode(Tail(text))

CharLength(lead) ==
    IF lead < 192 THEN 1 ELSE IF lead < 224 THEN 2 ELSE IF lead < 240 THEN 3 ELSE 4

CodePoint(bytes) ==
    CASE Len(bytes) = 1 -> IF bytes[1] < 128 THEN bytes[1] ELSE Replacement
      [] Len(bytes) = 2 -> (bytes[1] - 192) * 64 + (bytes[2] - 128)
      [] Len(bytes) = 3 ->
             (bytes[1] - 224) * 4096 + (bytes[2] - 128) * 64 + (bytes[3] - 128)
      [] OTHER ->
             (bytes[1] - 240) * 262144 + (bytes[2] - 128) * 4096
             + (bytes[3] - 128) * 64 + (bytes[4] - 128)

(* The characters that are complete in `bytes`, and the bytes of the last  *)
(* one when it is not.                                                     *)
RECURSIVE Decode(_)
Decode(bytes) ==
    IF bytes = <<>>
    THEN [text |-> <<>>, lastChar |-> <<>>]
    ELSE IF CharLength(bytes[1]) > Len(bytes)
    THEN [text |-> <<>>, lastChar |-> bytes]
    ELSE LET n == CharLength(bytes[1])
             rest == Decode(SubSeq(bytes, n + 1, Len(bytes)))
         IN [rest EXCEPT !.text = <<CodePoint(SubSeq(bytes, 1, n))>> \o @]

(* A decoder that holds nothing back: each chunk is decoded alone and the  *)
(* bytes of a character that is not complete at its end are dropped.       *)
WriteUnbuffered(lastChar, chunk) == [Decode(chunk) EXCEPT !.lastChar = <<>>]

Write(lastChar, chunk) == Decode(lastChar \o chunk)

End(lastChar) == IF lastChar = <<>> THEN <<>> ELSE <<Replacement>>

NoStream ==
    [text |-> <<>>, coming |-> <<>>, lastChar |-> <<>>, payload |-> <<>>,
     consumed |-> 0, split |-> FALSE, ended |-> FALSE]

(***************************************************************************)
(* req.on("data"): payload += decoder.write(data), for the next chunk of   *)
(* the body, of any size.                                                  *)
(***************************************************************************)
StreamData(size) ==
    /\ ~stream.ended
    /\ size \in 1..Len(stream.coming)
    /\ LET written == Write(stream.lastChar, SubSeq(stream.coming, 1, size))
       IN stream' = [stream EXCEPT
                        !.coming = SubSeq(@, size + 1, Len(@)),
                        !.lastChar = written.lastChar,
                        !.payload = @ \o written.text,
                        !.consumed = @ + size,
                        !.split = @ \/ written.lastChar # <<>>]
    /\ UNCHANGED <<routes, middlewares, regLog, reqs, logged, server>>

(***************************************************************************)
(* req.once("end"): if (payload) payload += decoder.end().                 *)
(***************************************************************************)
StreamEnd ==
    /\ ~stream.ended
    /\ stream.coming = <<>>
    /\ stream' = [stream EXCEPT
                     !.payload = IF @ # <<>> THEN @ \o End(stream.lastChar) ELSE @,
                     !.lastChar = IF stream.payload # <<>> THEN <<>> ELSE @,
                     !.ended = TRUE]
    /\ UNCHANGED <<routes, middlewares, regLog, reqs, logged, server>>

(***************************************************************************)
(* Construction: no routes, no middlewares, no request in flight.          *)
(***************************************************************************)
(* A constructor that listens.                                             *)
InitListening ==
    /\ routes = <<>>
    /\ middlewares = <<>>
    /\ regLog = <<>>
    /\ reqs = [r \in Slots |-> IdleRequest]
    /\ logged = <<>>
    /\ stream = NoStream
    /\ server = [NewServer EXCEPT !.handle = TRUE]

Init ==
    /\ routes = <<>>
    /\ middlewares = <<>>
    /\ regLog = <<>>
    /\ reqs = [r \in Slots |-> IdleRequest]
    /\ logged = <<>>
    /\ stream = NoStream
    /\ server = NewServer

(***************************************************************************)
(* Inputs.  GET, POST and their lower-case spellings as method tokens;     *)
(* route templates with and without the leading "/", literal and with      *)
(* parameters; request targets that hit, miss, extend or cut short the     *)
(* templates, one with a query and one that is not a valid URL.            *)
(***************************************************************************)
GET == <<"G", "E", "T">>

POST == <<"P", "O", "S", "T">>

LowerGet == <<"g", "e", "t">>

LowerPost == <<"p", "o", "s", "t">>

RoutePaths ==
    {<<"echo">>, <<Slash, "echo">>, <<Slash, "echo", Slash, ":id">>,
     <<Slash, "echo", Slash, "123">>, <<Slash, ":a", Slash, ":b">>}

RouteMethods == {LowerGet, POST}

RouteHandlers == {"hEcho", "hBare"}

RouteUrls ==
    {<<Slash, "echo">>, <<Slash, "echo", Slash>>, <<Slash, "echo", Slash, "123">>,
     <<Slash, "echo", Slash, "123", Slash, "extra">>,
     <<Slash, "echo", QueryMark, "q">>, <<Slash, Slash>>}

RouteRequestMethods == {GET, LowerPost}

RouteSlots == {"r1"}

ChainPaths == {<<Slash, "echo">>}

ChainMethods == {GET}

ChainHandlers == {"hEcho", "hThrow", "hReject"}

ChainRequests ==
    {<<<<Slash, "echo">>, GET>>, <<<<Slash, "nope">>, GET>>, <<<<Slash, "echo">>, POST>>}

(***************************************************************************)
(* Routing: many routes and request targets, one request at a time and no  *)
(* middleware.                                                             *)
(***************************************************************************)
NextRoute ==
    \/ server.starts = <<>> /\ Start(Bound)
    \/ Listening
    \/ \E path \in RoutePaths, method \in RouteMethods, handler \in RouteHandlers :
           Len(regLog) < MaxRoutes /\ AddHandler(path, method, handler)
    \/ \E r \in RouteSlots, url \in RouteUrls, method \in RouteRequestMethods :
           Request(r, url, method, {}, "")
    \/ \E r \in RouteSlots : RequestEnd(r)
    \/ \E r \in RouteSlots : RequestError(r)
    \/ \E r \in RouteSlots : HandlerSettles(r)

SpecRoute == Init /\ [][NextRoute]_vars

(***************************************************************************)
(* The chain: every kind of middleware and handler, two requests whose     *)
(* pipelines interleave with each other and with registration.             *)
(***************************************************************************)
Next ==
    \/ server.starts = <<>> /\ Start(Bound)
    \/ Listening
    \/ \E path \in ChainPaths, method \in ChainMethods, handler \in ChainHandlers :
           Len(regLog) < MaxChainRoutes /\ AddHandler(path, method, handler)
    \/ \E middleware \in Middlewares :
           Len(middlewares) < MaxMiddlewares /\ UseMiddleware(middleware)
    \/ \E r \in Slots, request \in ChainRequests : Request(r, request[1], request[2], {}, "")
    \/ \E r \in Slots : RequestEnd(r)
    \/ \E r \in Slots : RequestError(r)
    \/ \E r \in Slots : MiddlewareSettles(r)
    \/ \E r \in Slots : HandlerSettles(r)

Spec == Init /\ [][Next]_vars

(***************************************************************************)
(* Responses: every shape of handler result, a middleware that sets the    *)
(* payload and two that raise, a request target that is not a valid URL,   *)
(* one request at a time.                                                  *)
(***************************************************************************)
ResponseHandlers == Handlers

ResponseMiddlewares == {"mwSync", "mwThrow", "mwReject"}

ResponseRequests ==
    {<<<<Slash, "echo">>, GET>>, <<<<Slash, "nope">>, GET>>, <<<<Slash, Slash>>, GET>>}

NextResponse ==
    \/ server.starts = <<>> /\ Start(Bound)
    \/ Listening
    \/ \E path \in ChainPaths, method \in ChainMethods, handler \in ResponseHandlers :
           Len(regLog) < MaxChainRoutes /\ AddHandler(path, method, handler)
    \/ \E middleware \in ResponseMiddlewares :
           Len(middlewares) < MaxMiddlewares /\ UseMiddleware(middleware)
    \/ \E r \in RouteSlots, request \in ResponseRequests :
           Request(r, request[1], request[2], {}, "")
    \/ \E r \in RouteSlots : RequestEnd(r)
    \/ \E r \in RouteSlots : RequestError(r)
    \/ \E r \in RouteSlots : MiddlewareSettles(r)
    \/ \E r \in RouteSlots : HandlerSettles(r)

SpecResponse == Init /\ [][NextResponse]_vars

(***************************************************************************)
(* Request bodies: requests without a content-type header, with            *)
(* application/json and with text/plain, with no body, with the JSON text  *)
(* of an object and with a text that is not JSON; the Body Parser and an   *)
(* asynchronous middleware as what the application may register.           *)
(***************************************************************************)
HelloWorldText == "{\"hello\":\"world\"}"

MalformedText == "{\"invalid\": json}"

RequestHeaders ==
    {{}, {<<"content-type", "application/json">>}, {<<"content-type", "text/plain">>},
     {<<"content-type", "text/plain; charset=utf-8">>},
     {<<"content-type", "application/x-unknown">>}}

RequestBodies == {"", HelloWorldText, MalformedText}

BodyMethods == {POST}

BodyHandlers == {"hPayload", "hEcho"}

BodyMiddlewares == {BodyParser, "mwAsync"}

NextBody ==
    \/ server.starts = <<>> /\ Start(Bound)
    \/ Listening
    \/ \E path \in ChainPaths, method \in BodyMethods, handler \in BodyHandlers :
           Len(regLog) < MaxChainRoutes /\ AddHandler(path, method, handler)
    \/ \E middleware \in BodyMiddlewares :
           Len(middlewares) < MaxMiddlewares /\ UseMiddleware(middleware)
    \/ \E r \in RouteSlots, url \in ChainPaths, method \in BodyMethods,
          headers \in RequestHeaders, body \in RequestBodies :
           Request(r, url, method, headers, body)
    \/ \E r \in RouteSlots : RequestData(r)
    \/ \E r \in RouteSlots : RequestEnd(r)
    \/ \E r \in RouteSlots : RequestError(r)
    \/ \E r \in RouteSlots : MiddlewareSettles(r)
    \/ \E r \in RouteSlots : HandlerSettles(r)

SpecBody == Init /\ [][NextBody]_vars

(***************************************************************************)
(* Body streams: every text of at most MaxChars characters, of one, two,   *)
(* three and four bytes each ("a", "é", "你", "🚀"), cut into chunks in      *)
(* every way.                                                              *)
(***************************************************************************)
Chars == {97, 233, 20320, 128640}

RECURSIVE Texts(_)
Texts(n) ==
    IF n = 0 THEN {<<>>}
    ELSE Texts(n - 1) \cup {Append(t, c) : t \in {u \in Texts(n - 1) : Len(u) = n - 1}, c \in Chars}

InitStream ==
    /\ routes = <<>>
    /\ middlewares = <<>>
    /\ regLog = <<>>
    /\ reqs = [r \in Slots |-> IdleRequest]
    /\ logged = <<>>
    /\ server = NewServer
    /\ \E text \in Texts(MaxChars) :
           stream = [NoStream EXCEPT !.text = text, !.coming = Encode(text)]

NextStream ==
    \/ \E size \in 1..(4 * MaxChars) : StreamData(size)
    \/ StreamEnd

SpecStream == InitStream /\ [][NextStream]_vars

(***************************************************************************)
(* The lifecycle: start() with a port that is free and with one that is    *)
(* in use, kill(), their events, and one request that is in flight while   *)
(* the server is started and stopped.                                      *)
(***************************************************************************)
Binds == {Bound, AddressInUse}

NextLife ==
    \/ \E bind \in Binds : Len(server.starts) < MaxStarts /\ Start(bind)
    \/ Listening
    \/ BindError
    \/ Len(server.kills) < MaxKills /\ Kill
    \/ Closed
    \/ \E path \in ChainPaths, method \in ChainMethods :
           ~server.crashed /\ regLog = <<>> /\ AddHandler(path, method, "hEcho")
    \/ \E r \in RouteSlots, url \in ChainPaths, method \in ChainMethods :
           Request(r, url, method, {}, "")
    \/ \E r \in RouteSlots : ~server.crashed /\ RequestEnd(r)
    \/ \E r \in RouteSlots : ~server.crashed /\ HandlerSettles(r)

SpecLife == Init /\ [][NextLife]_vars

(* The events of a tick that has been scheduled are delivered.             *)
SpecLifeFair ==
    SpecLife /\ WF_vars(Listening) /\ WF_vars(BindError) /\ WF_vars(Closed)

(***************************************************************************)
(* Two requests with different bodies whose pipelines interleave, with a   *)
(* middleware that assigns to the context when it is called and one that   *)
(* assigns when it settles, and a handler that answers with the payload.   *)
(***************************************************************************)
IsolationBodies == {"one", "two"}

IsolationMiddlewares == {"mwSync", "mwAsync"}

NextIsolation ==
    \/ server.starts = <<>> /\ Start(Bound)
    \/ Listening
    \/ \E path \in ChainPaths, method \in ChainMethods :
           Len(regLog) < MaxChainRoutes /\ AddHandler(path, method, "hEcho")
    \/ \E middleware \in IsolationMiddlewares :
           Len(middlewares) < MaxMiddlewares /\ UseMiddleware(middleware)
    \/ \E r \in Slots, url \in ChainPaths, method \in ChainMethods, body \in IsolationBodies :
           Request(r, url, method, {}, body)
    \/ \E r \in Slots : RequestData(r)
    \/ \E r \in Slots : RequestEnd(r)
    \/ \E r \in Slots : MiddlewareSettles(r)
    \/ \E r \in Slots : HandlerSettles(r)

SpecIsolation == Init /\ [][NextIsolation]_vars

(***************************************************************************)
(* Stalled requests: a first request and a second one that arrives after   *)
(* it, each of which may stay at any of its awaits for any time: in its    *)
(* body read, where the stream may also fail or the server's request       *)
(* timeout may pass, in an asynchronous middleware, or in its handler.     *)
(***************************************************************************)
NextStall ==
    \/ server.starts = <<>> /\ Start(Bound)
    \/ Listening
    \/ \E path \in ChainPaths, method \in ChainMethods :
           Len(regLog) < MaxChainRoutes /\ AddHandler(path, method, "hEcho")
    \/ Len(middlewares) < MaxMiddlewares /\ UseMiddleware("mwAsync")
    \/ \E request \in ChainRequests : Request("r1", request[1], request[2], {}, "")
    \/ \E request \in ChainRequests :
           reqs["r1"].pc # "idle" /\ Request("r2", request[1], request[2], {}, "")
    \/ \E r \in Slots : RequestEnd(r)
    \/ \E r \in Slots : RequestError(r)
    \/ \E r \in Slots : RequestTimeout(r)
    \/ \E r \in Slots : MiddlewareSettles(r)
    \/ \E r \in Slots : HandlerSettles(r)

SpecStall == Init /\ [][NextStall]_vars

(***************************************************************************)
(* Path parameters behind a chain: routes with and without parameters,    *)
(* middlewares that assign to the context, one request at a time.          *)
(***************************************************************************)
GroupsPaths == {<<Slash, "echo">>, <<Slash, "echo", Slash, ":id">>, <<Slash, ":a", Slash, ":b">>}

GroupsUrls == {<<Slash, "echo">>, <<Slash, "echo", Slash, "123">>, <<Slash, "nope">>}

NextGroups ==
    \/ server.starts = <<>> /\ Start(Bound)
    \/ Listening
    \/ \E path \in GroupsPaths :
           Len(regLog) < MaxChainRoutes /\ AddHandler(path, GET, "hEcho")
    \/ \E middleware \in IsolationMiddlewares :
           Len(middlewares) < MaxMiddlewares /\ UseMiddleware(middleware)
    \/ \E r \in RouteSlots, url \in GroupsUrls : Request(r, url, GET, {}, "")
    \/ \E r \in RouteSlots : RequestEnd(r)
    \/ \E r \in RouteSlots : MiddlewareSettles(r)
    \/ \E r \in RouteSlots : HandlerSettles(r)

SpecGroups == Init /\ [][NextGroups]_vars

(***************************************************************************)
(* Registration alone: routes under methods in either case, with the same  *)
(* path more than once, and middlewares, in any order.                     *)
(***************************************************************************)
TablePaths == {<<"echo">>, <<Slash, "echo">>, <<Slash, "echo", Slash, ":id">>}

TableMethods == {LowerGet, GET, POST}

NextTable ==
    \/ \E path \in TablePaths, method \in TableMethods, handler \in RouteHandlers :
           Len(regLog) < MaxRoutes /\ AddHandler(path, method, handler)
    \/ Len(middlewares) < MaxMiddlewares /\ UseMiddleware("mwSync")

SpecTable == Init /\ [][NextTable]_vars

(***************************************************************************)
(* Requests that are not left waiting: two requests in flight together,    *)
(* middlewares and handlers that fulfil and that reject, a handler result  *)
(* that cannot be written, body streams that end and that fail.  Every     *)
(* body stream ends or fails and every promise that is awaited settles.    *)
(***************************************************************************)
LiveHandlers == {"hEcho", "hReject", "hObject"}

LiveMiddlewares == {"mwAsync", "mwReject"}

LiveRequests == {<<<<Slash, "echo">>, GET>>, <<<<Slash, "nope">>, GET>>}

NextLive ==
    \/ server.starts = <<>> /\ Start(Bound)
    \/ Listening
    \/ \E path \in ChainPaths, method \in ChainMethods, handler \in LiveHandlers :
           regLog = <<>> /\ AddHandler(path, method, handler)
    \/ \E middleware \in LiveMiddlewares :
           Len(middlewares) < MaxLiveMiddlewares /\ UseMiddleware(middleware)
    \/ \E r \in Slots, request \in LiveRequests : Request(r, request[1], request[2], {}, "")
    \/ \E r \in Slots : RequestEnd(r)
    \/ \E r \in Slots : RequestError(r)
    \/ \E r \in Slots : MiddlewareSettles(r)
    \/ \E r \in Slots : HandlerSettles(r)

SpecLive ==
    /\ Init /\ [][NextLive]_vars
    /\ \A r \in Slots :
          /\ WF_vars(RequestEnd(r) \/ RequestError(r))
          /\ WF_vars(MiddlewareSettles(r))
          /\ WF_vars(HandlerSettles(r))

(***************************************************************************)
(* Registration around one request: routes registered before the request   *)
(* arrives (with the handler hEcho), while it is in its body read or in     *)
(* its middleware chain (hBare), and after its route lookup (hPayload).     *)
(***************************************************************************)
LatePaths == {<<Slash, "echo">>, <<Slash, ":a">>}

LateUrls == {<<Slash, "echo">>, <<Slash, "echo", Slash, "123">>}

NextLate ==
    \/ server.starts = <<>> /\ Start(Bound)
    \/ Listening
    \/ middlewares = <<>> /\ UseMiddleware("mwAsync")
    \/ \E path \in LatePaths :
           /\ Len(regLog) < MaxLateRoutes
           /\ reqs["r1"].pc = "idle"
           /\ AddHandler(path, GET, "hEcho")
    \/ \E path \in LatePaths :
           /\ Len(regLog) < MaxLateRoutes
           /\ reqs["r1"].pc \in {"reading", "mwAwait"}
           /\ AddHandler(path, GET, "hBare")
    \/ \E path \in LatePaths :
           /\ Len(regLog) < MaxLateRoutes
           /\ reqs["r1"].pc \in {"handlerAwait", "done"}
           /\ AddHandler(path, GET, "hPayload")
    \/ \E url \in LateUrls : Request("r1", url, GET, {}, "")
    \/ RequestEnd("r1")
    \/ MiddlewareSettles("r1")
    \/ HandlerSettles("r1")

SpecLate == Init /\ [][NextLate]_vars

(***************************************************************************)
(* Middlewares appended around one request: before the request arrives     *)
(* (mwSync), while it awaits a middleware of its chain (mwAsync), and      *)
(* after its route lookup (mwReject).                                      *)
(***************************************************************************)
AppendUrls == {<<Slash, "echo">>, <<Slash, "none">>}

NextAppend ==
    \/ server.starts = <<>> /\ Start(Bound)
    \/ Listening
    \/ regLog = <<>> /\ AddHandler(<<Slash, "echo">>, GET, "hEcho")
    \/ /\ Len(middlewares) < MaxLateMiddlewares
       /\ reqs["r1"].pc = "idle"
       /\ UseMiddleware("mwSync")
    \/ /\ Len(middlewares) < MaxLateMiddlewares
       /\ reqs["r1"].pc = "mwAwait"
       /\ UseMiddleware("mwAsync")
    \/ /\ Len(middlewares) < MaxLateMiddlewares
       /\ reqs["r1"].pc \in {"handlerAwait", "done"}
       /\ UseMiddleware("mwReject")
    \/ \E url \in AppendUrls : Request("r1", url, GET, {}, "")
    \/ RequestEnd("r1")
    \/ MiddlewareSettles("r1")
    \/ HandlerSettles("r1")

SpecAppend == Init /\ [][NextAppend]_vars

(***************************************************************************)
(* Vocabulary of the properties.  The trace of a request lists, in order,  *)
(* what #handleRequest has done for it; regLog lists the addHandler calls  *)
(* in the order they were made, and regsSeen and mwsSeen are the numbers   *)
(* of addHandler and useMiddleware calls made before the route lookup.     *)
(***************************************************************************)
Events(q, kind) == SelectSeq(q.trace, LAMBDA e : e[1] = kind)

LookedUp(q) == Events(q, "match") # <<>>

HasData(q) == q.pc \in {"mwAwait", "handlerAwait"} \/ Events(q, "mw") # <<>> \/ LookedUp(q)

Template(k) == normalizePath(regLog[k].path)

IsLiteral(template) == \A i \in DOMAIN template : ~IsParam(template[i])

WholePathMatch(template, path) ==
    /\ Len(template) = Len(path)
    /\ \A i \in DOMAIN template :
          /\ (template[i] = Slash) <=> (path[i] = Slash)
          /\ ~IsParam(template[i]) => template[i] = path[i]

SameMethod(k, q) == toUpperCase(regLog[k].method) = q.data.method

Candidates(q) ==
    {k \in 1..q.regsSeen : SameMethod(k, q) /\ WholePathMatch(Template(k), q.data.path)}

Latest(q) == CHOOSE k \in Candidates(q) : \A j \in Candidates(q) : j <= k

(***************************************************************************)
(* C1: LIFO route precedence.  Whenever a request is dispatched and some   *)
(* registered routes under its method match its path, exactly one handler  *)
(* is invoked and it is the handler of the most recently registered of     *)
(* them; a route registered before another matching route is never the     *)
(* one invoked, whichever of the two is static or parameterized.           *)
(***************************************************************************)
C1_LifoPrecedence ==
    \A r \in Slots :
        LET q == reqs[r]
        IN (LookedUp(q) /\ Candidates(q) # {}) =>
               Events(q, "handler") = <<<<"handler", regLog[Latest(q)].handler>>>>

C1_Witness ==
    \E r \in Slots :
        LET q == reqs[r]
        IN /\ q.pc = "done"
           /\ LookedUp(q)
           /\ \E k1, k2 \in Candidates(q) :
                 /\ k1 < k2
                 /\ IsLiteral(Template(k1)) # IsLiteral(Template(k2))
                 /\ regLog[k1].handler # regLog[k2].handler
                 /\ Events(q, "handler") = <<<<"handler", regLog[k2].handler>>>>

(***************************************************************************)
(* C2: a request that comes to the route lookup and for which no route     *)
(* registered under its method matches its path is answered with status    *)
(* 404, Content-Type application/json and an empty body, and no handler    *)
(* is invoked for it, also when a matching route exists under another      *)
(* method.                                                                 *)
(***************************************************************************)
C2_NotFound ==
    \A r \in Slots :
        LET q == reqs[r]
        IN (LookedUp(q) /\ Candidates(q) = {}) =>
              /\ Events(q, "handler") = <<>>
              /\ q.pc = "done" =>
                    /\ q.res.statusCode = 404
                    /\ q.res.contentType = "application/json"
                    /\ q.res.body = ""

C2_Witness ==
    \E r \in Slots :
        LET q == reqs[r]
        IN /\ q.pc = "done"
           /\ LookedUp(q)
           /\ Candidates(q) = {}
           /\ \E k \in 1..q.regsSeen :
                 ~SameMethod(k, q) /\ WholePathMatch(Template(k), q.data.path)
           /\ q.res.statusCode = 404

C4_ExactMatch ==
    \A r \in Slots :
        LET q == reqs[r]
        IN /\ Events(q, "handler") # <<>> => Candidates(q) # {}
           /\ (Events(q, "handler") # <<>> /\ IsLiteral(Template(Latest(q)))) =>
                 /\ q.data.path = Template(Latest(q))
                 /\ q.arg.groups = NoGroups

Echo123Extra == <<Slash, "echo", Slash, "123", Slash, "extra">>

C4_Witness ==
    \E r \in Slots :
        LET q == reqs[r]
        IN /\ q.pc = "done"
           /\ q.data.path = Echo123Extra
           /\ \E k1, k2 \in 1..q.regsSeen :
                 /\ SameMethod(k1, q) /\ Template(k1) = <<Slash, "echo">>
                 /\ SameMethod(k2, q) /\ Template(k2) = <<Slash, "echo", Slash, ":id">>
           /\ Events(q, "handler") = <<>>
           /\ q.res.statusCode = 404

(***************************************************************************)
(* C5: when the selected route's template has :name segments, the handler  *)
(* receives groups whose keys are exactly those names, each mapped to the  *)
(* segment of the request path at the position of its :name.               *)
(***************************************************************************)
C5_Groups ==
    \A r \in Slots :
        LET q == reqs[r]
        IN (Events(q, "handler") # <<>> /\ Candidates(q) # {}) =>
              LET template == Template(Latest(q))
              IN /\ DOMAIN q.arg.groups =
                        {ParamName[template[i]] : i \in ParamPositions(template)}
                 /\ \A i \in ParamPositions(template) :
                        q.arg.groups[ParamName[template[i]]] = q.data.path[i]

C5_Witness ==
    \E r \in Slots :
        LET q == reqs[r]
        IN /\ q.pc = "done"
           /\ Events(q, "handler") # <<>>
           /\ Candidates(q) # {}
           /\ Template(Latest(q)) = <<Slash, ":a", Slash, ":b">>
           /\ q.arg.groups = ("a" :> "echo") @@ ("b" :> "123")

(***************************************************************************)
(* C6: leading-slash normalization is symmetric.  The route entries made   *)
(* by registering p and "/" + p (p without a leading "/") match the same   *)
(* request paths, and every request context path begins with "/".          *)
(***************************************************************************)
EntryOf(k) ==
    LET key == toUpperCase(regLog[k].method)
        later == {j \in k..Len(regLog) : toUpperCase(regLog[j].method) = key}
    IN routes[key][Cardinality(later)]

RequestPaths == {Pathname(url) : url \in {u \in RouteUrls : UrlIsValid(u)}}

C6_SlashSymmetry ==
    /\ \A k1, k2 \in DOMAIN regLog :
          (~startsWithSlash(regLog[k1].path) /\ regLog[k2].path = <<Slash>> \o regLog[k1].path)
          => \A path \in RequestPaths :
                 Test(EntryOf(k1).pattern, path) <=> Test(EntryOf(k2).pattern, path)
    /\ \A r \in Slots : HasData(reqs[r]) => startsWithSlash(reqs[r].data.path)

C6_Witness ==
    /\ \E k1, k2 \in DOMAIN regLog :
          /\ regLog[k1].path = <<"echo">>
          /\ regLog[k2].path = <<Slash, "echo">>
          /\ Test(EntryOf(k1).pattern, <<Slash, "echo">>)
          /\ Test(EntryOf(k2).pattern, <<Slash, "echo">>)
    /\ \E r \in Slots : reqs[r].pc = "done" /\ reqs[r].data.path = <<Slash, "echo">>

(***************************************************************************)
(* C7: middlewares are invoked in registration order, one at a time: the   *)
(* n-th invocation for a request is of the n-th registered middleware and  *)
(* happens only when every earlier invocation has settled, and the route   *)
(* handler is invoked only when the last registered middleware has         *)
(* settled.                                                                *)
(***************************************************************************)
Before(q, p, kind) == Cardinality({i \in 1..(p - 1) : q.trace[i][1] = kind})

C7_SequentialChain ==
    \A r \in Slots :
        LET q == reqs[r]
        IN \A p \in DOMAIN q.trace :
              /\ q.trace[p][1] = "mw" =>
                    /\ q.trace[p][2] = middlewares[Before(q, p, "mw") + 1]
                    /\ Before(q, p, "settled") = Before(q, p, "mw")
              /\ q.trace[p][1] = "handler" =>
                    /\ Before(q, p, "mw") = q.mwsSeen
                    /\ Before(q, p, "settled") = q.mwsSeen

C7_Witness ==
    \E r \in Slots :
        LET q == reqs[r]
        IN /\ q.pc = "done"
           /\ middlewares = <<"mwAsync", "mwSync">>
           /\ q.trace = <<<<"mw", "mwAsync">>, <<"settled", "mwAsync">>,
                          <<"mw", "mwSync">>, <<"settled", "mwSync">>,
                          <<"match", "route">>, <<"handler", "hEcho">>,
                          <<"end", "send">>>>

(***************************************************************************)
(* C8: in every reachable state the built-in Body Parser is the first      *)
(* element of the middleware chain.                                        *)
(***************************************************************************)
C8_BodyParserFirst == Len(middlewares) >= 1 /\ middlewares[1] = "BodyParser"

(***************************************************************************)
(* C9: every middleware registered by then has been invoked, in order, for *)
(* every request that comes to the route lookup, whatever its path and     *)
(* method; in particular for every request answered with 404.              *)
(***************************************************************************)
C9_AllMiddlewaresRun ==
    \A r \in Slots :
        LET q == reqs[r]
        IN /\ (q.pc = "done" /\ q.res.statusCode = 404) => LookedUp(q)
           /\ LookedUp(q) =>
                 Events(q, "mw") = [j \in 1..q.mwsSeen |-> <<"mw", middlewares[j]>>]

C9_Witness ==
    \E r \in Slots :
        LET q == reqs[r]
        IN /\ q.pc = "done"
           /\ q.res.statusCode = 404
           /\ q.method = POST
           /\ q.mwsSeen = 2
           /\ Events(q, "mw") = <<<<"mw", middlewares[1]>>, <<"mw", middlewares[2]>>>>

(***************************************************************************)
(* C10: once a middleware that raises (throws or rejects) has been invoked *)
(* for a request, no further middleware and no route handler is invoked    *)
(* for that request.                                                       *)
(***************************************************************************)
Raising == {"mwThrow", "mwReject"}

C10_RaiseAbortsChain ==
    \A r \in Slots :
        LET q == reqs[r]
        IN \A p \in DOMAIN q.trace :
              (q.trace[p][1] = "mw" /\ q.trace[p][2] \in Raising) =>
                  /\ \A p2 \in (p + 1)..Len(q.trace) :
                         q.trace[p2][1] \notin {"mw", "match", "handler"}
                  /\ Events(q, "handler") = <<>>

C10_Witness ==
    \E r \in Slots :
        LET q == reqs[r]
        IN /\ q.pc = "done"
           /\ middlewares = <<"mwReject", "mwSync">>
           /\ Events(q, "mw") = <<<<"mw", "mwReject">>>>
           /\ q.data.path = <<Slash, "echo">>
           /\ q.data.method = GET
           /\ Len(regLog) = 1
           /\ q.res.statusCode = 500

(***************************************************************************)
(* The errors raised in the pipeline of a request, by their messages: the  *)
(* URL that does not parse, the body stream that fails, the middleware     *)
(* that throws or rejects, the handler that throws or rejects, and the     *)
(* setHeader or res.end that throws on what the handler returned.          *)
(***************************************************************************)
ErrorMessage ==
    [url |-> InvalidUrlMessage, stream |-> StreamMessage,
     setHeader |-> InvalidHeaderMessage, end |-> InvalidChunkMessage]

RaisedIn(q) ==
    {ErrorMessage[e[2]] : e \in {q.trace[i] : i \in {j \in DOMAIN q.trace : q.trace[j][1] = "error"}}}
    \cup {RaiseMessage(e[2]) : e \in {q.trace[i] : i \in {j \in DOMAIN q.trace : q.trace[j][1] = "raised"}}}
    \cup {HandlerMessage : e \in {q.trace[i] : i \in {j \in DOMAIN q.trace :
                                     /\ q.trace[j][1] = "handler"
                                     /\ HandlerThrows(q.trace[j][2])
                                        \/ (HandlerRejects(q.trace[j][2]) /\ q.pc = "done")}}}

(***************************************************************************)
(* C11: every error raised in the pipeline of a request, whether by the    *)
(* reading of the request, by a middleware or by a route handler, thrown   *)
(* or delivered as a rejection, ends the request with status 500 and the   *)
(* message of the error as the body; all kinds of error are answered the   *)
(* same way, and nothing is run again: there is one route lookup, at most  *)
(* one handler call and one call per middleware for a request.             *)
(***************************************************************************)
C11_ErrorIs500 ==
    \A r \in Slots :
        LET q == reqs[r]
        IN /\ RaisedIn(q) # {} =>
                 /\ q.pc = "done"
                 /\ q.res.statusCode = 500
                 /\ RaisedIn(q) = {q.res.body}
                 /\ q.res.ends = 1
           /\ Len(Events(q, "match")) <= 1
           /\ Len(Events(q, "handler")) <= 1
           /\ Len(Events(q, "mw")) <= Len(middlewares)
           /\ Len(Events(q, "raised")) + Len(Events(q, "error")) <= 1

C11_Witness ==
    \E r \in Slots :
        LET q == reqs[r]
        IN /\ q.pc = "done"
           /\ Events(q, "mw") = <<<<"mw", "mwSync">>, <<"mw", "mwReject">>>>
           /\ RaisedIn(q) = {MiddlewareMessage}
           /\ q.res.statusCode = 500
           /\ q.res.body = MiddlewareMessage

(***************************************************************************)
(* C12: whenever a request has ended on the error path, with status 500,   *)
(* the error has also been passed to the configured logger: its message    *)
(* is among what the logger was called with.                               *)
(***************************************************************************)
C12_ErrorIsLogged ==
    \A r \in Slots :
        LET q == reqs[r]
        IN (q.pc = "done" /\ RaisedIn(q) # {}) =>
               \E i \in DOMAIN logged : logged[i] \in RaisedIn(q)

(***************************************************************************)
(* C13: the response of a request is ended at most once on every path,    *)
(* success, 404 or error: it has not been ended while the request is in    *)
(* progress, and it has been ended exactly once when the request is done.  *)
(* The error path therefore always starts on a response of which nothing   *)
(* has been sent: no body written, not ended.                              *)
(***************************************************************************)
C13_EndedOnce ==
    \A r \in Slots :
        LET q == reqs[r]
        IN /\ q.res.ends = Len(Events(q, "end"))
           /\ q.res.ends = IF q.pc = "done" THEN 1 ELSE 0
           /\ q.pc # "done" => q.res.body = ""

C13_Witness ==
    \E r \in Slots :
        LET q == reqs[r]
        IN /\ q.pc = "done"
           /\ Events(q, "handler") = <<<<"handler", "hObject">>>>
           /\ Events(q, "error") = <<<<"error", "end">>>>
           /\ Events(q, "end") = <<<<"end", "catch">>>>
           /\ q.res.ends = 1
           /\ q.res.statusCode = 500

(***************************************************************************)
(* C14: no response lacks a Content-Type header: whenever a request is     *)
(* done, its response carries Content-Type, the 500 responses of the       *)
(* error path included.                                                    *)
(***************************************************************************)
C14_ContentTypeAlways ==
    \A r \in Slots :
        LET q == reqs[r]
        IN q.pc = "done" => q.res.contentType # ""

(***************************************************************************)
(* The handler that was invoked for a request and has returned a result    *)
(* (it neither threw nor rejected), and the result it returned.            *)
(***************************************************************************)
Returned(q) ==
    /\ q.pc = "done"
    /\ Len(Events(q, "handler")) = 1
    /\ ~HandlerThrows(Events(q, "handler")[1][2])
    /\ ~HandlerRejects(Events(q, "handler")[1][2])

ResultOf(q) == HandlerResult(Events(q, "handler")[1][2], q.arg)

(***************************************************************************)
(* C15: when the matched handler returns undefined, or a result without    *)
(* statusCode or without contentType, the response has status 200 for the  *)
(* missing status and Content-Type application/json for the missing        *)
(* content type; a statusCode or contentType that the result supplies is   *)
(* the one of the response.                                                *)
(***************************************************************************)
C15_Defaults ==
    \A r \in Slots :
        LET q == reqs[r]
        IN Returned(q) =>
              /\ q.res.statusCode = IF ResultOf(q).statusCode = 0
                                    THEN 200 ELSE ResultOf(q).statusCode
              /\ q.res.contentType = IF ResultOf(q).contentType = ""
                                     THEN CONTENT_TYPES.JSON ELSE ResultOf(q).contentType

(***************************************************************************)
(* JSON as the client reads it.  JsonText is the JSON text of a value;     *)
(* JsonParse reads a text back: it gives the value whose JSON text the     *)
(* text is, and a syntax error for a text that is the JSON text of no      *)
(* value (a bare word, the empty text).                                    *)
(***************************************************************************)
JsonValues == NonStrings \cup {"", "world", "ok", "mwSync"}

JsonText(value) ==
    CASE value = ObjectValue -> HelloWorldText
      [] value = ArrayValue -> "[1,2]"
      [] value = NumberValue -> "42"
      [] OTHER -> "\"" \o value \o "\""

SyntaxError == "SyntaxError"

JsonParse(text) ==
    IF \E value \in JsonValues : JsonText(value) = text
    THEN CHOOSE value \in JsonValues : JsonText(value) = text
    ELSE SyntaxError

(***************************************************************************)
(* C16: JSON round trip.  When a handler returns a result whose content    *)
(* type is JSON (given, or by default) and whose payload is a value X, an  *)
(* object, an array, a string or a number, the response is the one of the  *)
(* result and its body, decoded as JSON, is X.                             *)
(***************************************************************************)
C16_JsonRoundTrip ==
    \A r \in Slots :
        LET q == reqs[r]
        IN (/\ Returned(q)
            /\ ResultOf(q).contentType \in {"", CONTENT_TYPES.JSON}
            /\ ResultOf(q).payload # Undefined)
           => /\ q.res.statusCode # 500
              /\ JsonParse(q.res.body) = ResultOf(q).payload

(***************************************************************************)
(* C17: when a handler returns a result whose content type is JSON (given  *)
(* or by default) and whose payload is absent, or returns undefined, the   *)
(* response is a successful one, with the status of the result or 200,     *)
(* never 500, and its body is empty.                                       *)
(***************************************************************************)
C17_AbsentPayload ==
    \A r \in Slots :
        LET q == reqs[r]
        IN (/\ Returned(q)
            /\ ResultOf(q).contentType \in {"", CONTENT_TYPES.JSON}
            /\ ResultOf(q).payload = Undefined)
           => /\ q.res.statusCode = IF ResultOf(q).statusCode = 0
                                    THEN 200 ELSE ResultOf(q).statusCode
              /\ q.res.contentType = CONTENT_TYPES.JSON
              /\ q.res.body = ""
              /\ Events(q, "end") = <<<<"end", "send">>>>

C17_Witness ==
    \E r \in Slots :
        LET q == reqs[r]
        IN /\ Returned(q)
           /\ Events(q, "handler") = <<<<"handler", "hStatus">>>>
           /\ ResultOf(q).payload = Undefined
           /\ q.res.statusCode = 201
           /\ q.res.body = ""

(***************************************************************************)
(* C18: when a handler returns a result whose content type is not JSON     *)
(* and whose payload is a string, the body of the response is that string, *)
(* character for character.                                                *)
(***************************************************************************)
C18_VerbatimText ==
    \A r \in Slots :
        LET q == reqs[r]
        IN (/\ Returned(q)
            /\ ResultOf(q).contentType \notin {"", CONTENT_TYPES.JSON}
            /\ ResultOf(q).payload \notin NonStrings \cup {Undefined})
           => q.res.body = ResultOf(q).payload

(***************************************************************************)
(* C19: every entry of the `headers` of the result a handler returned is   *)
(* on the response, name and value or values, whether the headers are a    *)
(* plain object mapping names to strings, a plain object mapping names to  *)
(* lists of strings, or an instance of Headers; the response is the one    *)
(* of the result and not an error.                                         *)
(***************************************************************************)
C19_ResultHeaders ==
    \A r \in Slots :
        LET q == reqs[r]
            entries == ResultOf(q).headers.entries
        IN Returned(q) =>
              /\ \A i \in DOMAIN entries : entries[i] \in q.res.headers
              /\ entries # <<>> => Events(q, "end") = <<<<"end", "send">>>>

(* The two plain-object shapes, which the loop does copy. *)
PlainObjectHeadersCopied ==
    \A r \in Slots :
        LET q == reqs[r]
            entries == ResultOf(q).headers.entries
        IN (Returned(q) /\ ResultOf(q).headers.kind = "object") =>
              /\ \A i \in DOMAIN entries : entries[i] \in q.res.headers
              /\ Events(q, "end") = <<<<"end", "send">>>>

(***************************************************************************)
(* C20: when a request has no content-type header the Body Parser treats   *)
(* its body as JSON: for a body that is not empty (here the JSON text of   *)
(* a value), the value the text parses to is the payload of the request    *)
(* context, which is what the handler invoked for the request is given.    *)
(***************************************************************************)
C20_NoContentTypeIsJson ==
    \A r \in Slots :
        LET q == reqs[r]
        IN (/\ Events(q, "handler") # <<>>
            /\ Header(q.headers, "content-type") = Undefined
            /\ q.body # ""
            /\ JsonParse(q.body) # SyntaxError)
           => q.arg.payload = JsonParse(q.body)

(* What the Body Parser does when the application registers it: it takes   *)
(* the JSON parser for every request, and the request ends with 500        *)
(* before any handler is invoked.                                          *)
BodyParserRejects ==
    \A r \in Slots :
        LET q == reqs[r]
        IN \A p \in DOMAIN q.trace :
              q.trace[p] = <<"mw", BodyParser>> =>
                  /\ q.trace[p + 1] = <<"parser", "parseJSON">>
                  /\ Events(q, "handler") = <<>>
                  /\ q.pc = "done" => q.res.statusCode = 500

(***************************************************************************)
(* Requests by how their body is to be read: as JSON when the content-type *)
(* header is application/json or absent, as text when it is text/plain.    *)
(* JsonErrorMessage is the message of the SyntaxError of JSON.parse.       *)
(***************************************************************************)
HandledAsJson(q) ==
    Header(q.headers, "content-type") \in {Undefined, CONTENT_TYPES.JSON}

HandledAsText(q) == Header(q.headers, "content-type") = "text/plain"

JsonErrorMessage == "Unexpected token j in JSON at position 12"

(***************************************************************************)
(* C21: a request whose body is not empty, is read as JSON and is not      *)
(* valid JSON is aborted: no handler is invoked for it, and when it is     *)
(* done, its body having been read to the end, its response has status     *)
(* 500 and the message of the parse error as its body.                     *)
(***************************************************************************)
C21_MalformedJsonAborts ==
    \A r \in Slots :
        LET q == reqs[r]
        IN (/\ q.pc # "idle"
            /\ HandledAsJson(q)
            /\ q.body # ""
            /\ JsonParse(q.body) = SyntaxError)
           => /\ Events(q, "handler") = <<>>
              /\ (q.pc = "done" /\ HasData(q)) =>
                    /\ q.res.statusCode = 500
                    /\ q.res.body = JsonErrorMessage

(***************************************************************************)
(* C22: for a request with content-type text/plain the payload that the    *)
(* handler is given is the body text unchanged when the body is not        *)
(* empty and is unset when it is empty; the body is not parsed as JSON     *)
(* and the request does not end with 500 on account of its body.           *)
(***************************************************************************)
C22_TextPlain ==
    \A r \in Slots :
        LET q == reqs[r]
        IN HandledAsText(q) =>
              /\ Events(q, "handler") # <<>> =>
                    q.arg.payload = IF q.body = "" THEN Undefined ELSE q.body
              /\ \A p \in DOMAIN q.trace : q.trace[p] # <<"parser", "parseJSON">>
              /\ Events(q, "raised") = <<>>

(***************************************************************************)
(* C23: for a request with an empty body that is read as JSON the payload  *)
(* is unset, undefined and not the empty string, in the request context    *)
(* that the middlewares and the handler are given.                         *)
(***************************************************************************)
C23_EmptyBodyUnset ==
    \A r \in Slots :
        LET q == reqs[r]
        IN (HandledAsJson(q) /\ q.body = "") =>
              /\ Events(q, "mw") # <<>> => q.data.payload = Undefined
              /\ Events(q, "handler") # <<>> => q.arg.payload = Undefined

(***************************************************************************)
(* C30: a read error on the body stream of a request aborts the reading:   *)
(* the request is done with status 500 and the message of that error, the  *)
(* request context is never built, so no payload is assigned from what     *)
(* had been received, and no middleware and no handler is invoked.         *)
(***************************************************************************)
C30_StreamErrorAborts ==
    \A r \in Slots :
        LET q == reqs[r]
        IN Events(q, "error") = <<<<"error", "stream">>>> =>
              /\ q.pc = "done"
              /\ q.res.statusCode = 500
              /\ q.res.body = StreamMessage
              /\ q.data = NoData
              /\ q.trace = <<<<"error", "stream">>, <<"end", "catch">>>>

C30_Witness ==
    \E r \in Slots :
        LET q == reqs[r]
        IN /\ Events(q, "error") = <<<<"error", "stream">>>>
           /\ q.buffer = HelloWorldText
           /\ Len(regLog) = 1
           /\ q.pc = "done"
           /\ q.data.payload = Undefined
           /\ q.res.statusCode = 500

(***************************************************************************)
(* C29: the accumulation of a body does not depend on the chunking.  For   *)
(* every text and every way of cutting its UTF-8 bytes into chunks, in     *)
(* the middle of a character too, every byte is consumed once, in order,   *)
(* and when the stream has ended the accumulated text is the text whose    *)
(* encoding the bytes are.                                                 *)
(***************************************************************************)
C29_ChunkingIndependence ==
    /\ stream.consumed + Len(stream.coming) = Len(Encode(stream.text))
    /\ stream.coming = SubSeq(Encode(stream.text), stream.consumed + 1,
                              Len(Encode(stream.text)))
    /\ Encode(stream.payload) \o stream.lastChar
           = SubSeq(Encode(stream.text), 1, stream.consumed)
    /\ stream.ended => stream.payload = stream.text

C29_Witness ==
    /\ stream.ended
    /\ stream.split
    /\ stream.text = <<128640, 97, 233>>
    /\ stream.payload = stream.text

(***************************************************************************)
(* The promises of start() and kill().                                     *)
(***************************************************************************)
Starts == {server.starts[i] : i \in DOMAIN server.starts}

Kills == {server.kills[i] : i \in DOMAIN server.kills}

(***************************************************************************)
(* C24: start() on a server that is not listening and whose bind succeeds  *)
(* resolves: its promise is resolved only by the "listening" event of a    *)
(* server that is bound, with the instance itself, while the server has    *)
(* its listening handle, and after the logger has been called with the     *)
(* start line; and it does get resolved when that event is delivered,      *)
(* unless the server is stopped, or the process ends, before.              *)
(***************************************************************************)
StartState(i) == IF i \in DOMAIN server.starts THEN server.starts[i].state ELSE ""

C24_StartResolves ==
    /\ [](\A p \in Starts :
             /\ p.state = "resolved" =>
                   /\ ~p.handle
                   /\ p.value = This
                   /\ p.listening
                   /\ p.line \in 1..Len(logged) /\ logged[p.line] = StartedLine
             /\ p.state = "pending" /\ p.bind = Bound /\ server.handle =>
                   Scheduled("listening"))
    /\ \A i \in 1..MaxStarts :
           (StartState(i) = "pending" /\ server.handle)
              ~> (StartState(i) = "resolved" \/ ~server.handle \/ server.crashed)

C24_Witness ==
    /\ Len(server.starts) = 1
    /\ server.starts[1].state = "resolved" /\ server.starts[1].value = This
    /\ server.handle
    /\ logged = <<StartedLine>>

(***************************************************************************)
(* C25: kill() on a server that was never started returns a promise, and   *)
(* that promise is rejected (with the server's "not running" error) when   *)
(* the "close" event is delivered; it is never resolved.                   *)
(***************************************************************************)
C25_KillNeverStarted ==
    \A k \in Kills :
        k.life = "new" =>
            /\ k.state # "resolved"
            /\ k.value = NotRunning
            /\ k.state = "pending" => Scheduled("close")

C25_Witness ==
    /\ server.starts = <<>>
    /\ Len(server.kills) = 1
    /\ server.kills[1].state = "rejected" /\ server.kills[1].value = NotRunning

(***************************************************************************)
(* C26: after a start() that resolved and a kill() that resolved, with no  *)
(* start() since, another kill() is rejected like the kill() of a server   *)
(* that was never started; it is never resolved.                           *)
(***************************************************************************)
C26_SecondKillRejects ==
    \A k \in Kills :
        k.life = "stopped" =>
            /\ ~k.handle
            /\ k.state # "resolved"
            /\ k.value = NotRunning
            /\ k.state = "pending" => Scheduled("close")

C26_Witness ==
    /\ Len(server.starts) = 1 /\ server.starts[1].state = "resolved"
    /\ Len(server.kills) = 2
    /\ server.kills[1].state = "resolved"
    /\ server.kills[2].life = "stopped" /\ server.kills[2].state = "rejected"

(***************************************************************************)
(* C27: a start() whose bind fails is rejected with the error of the bind: *)
(* its promise is never resolved, it is rejected once the error has been   *)
(* raised, and the server has no listening handle.                         *)
(***************************************************************************)
C27_BindFailureRejects ==
    \A p \in Starts :
        p.bind = AddressInUse =>
            /\ p.state # "resolved"
            /\ ~Scheduled("error") => p.state = "rejected" /\ p.value = AddressInUse

(***************************************************************************)
(* C28: the server is Idle (no listening handle) or Listening.  A new      *)
(* instance is Idle and stays so until start(); a start() that resolved    *)
(* found the server Listening; only a start() makes it Listening and only  *)
(* a kill() makes it Idle, which every kill() does; the kill() of a        *)
(* Listening server is resolved when "close" is delivered, never           *)
(* rejected; a request enters the pipeline only while the server is        *)
(* Listening, and the pipeline of a request takes its steps while the      *)
(* server is Listening or before the kill() that stopped it is resolved.   *)
(***************************************************************************)
Lifecycle == IF server.handle THEN "Listening" ELSE "Idle"

C28_Lifecycle ==
    /\ [](/\ server.handle \in BOOLEAN
          /\ server.starts = <<>> => Lifecycle = "Idle"
          /\ \A p \in Starts : p.state = "resolved" => p.listening
          /\ \A k \in Kills :
                 k.handle => k.value = Undefined /\ k.state # "rejected")
    /\ [][/\ Lifecycle = "Idle" /\ Lifecycle' = "Listening" =>
                Len(server'.starts) = Len(server.starts) + 1
          /\ Lifecycle = "Listening" /\ Lifecycle' = "Idle" =>
                Len(server'.kills) = Len(server.kills) + 1
          /\ Len(server'.kills) = Len(server.kills) + 1 => Lifecycle' = "Idle"
          /\ \A r \in Slots :
                 reqs[r].pc = "idle" /\ reqs'[r].pc # "idle" =>
                     Lifecycle = "Listening"
          /\ reqs' # reqs =>
                \/ Lifecycle = "Listening"
                \/ \E k \in Kills : k.handle /\ k.state = "pending"]_vars

C28_Witness ==
    /\ Lifecycle = "Idle"
    /\ \E p \in Starts : p.state = "resolved"
    /\ \E k \in Kills : k.handle /\ k.state = "resolved"
    /\ \E r \in Slots : reqs[r].pc = "done" /\ reqs[r].res.statusCode = 201

(***************************************************************************)
(* C31: for one request the stages of the pipeline happen in sequence and  *)
(* each at most once: the context is built, then the middlewares are       *)
(* invoked in order, each when the one before it has settled, then the     *)
(* route is matched when the last middleware has settled, then the handler *)
(* is invoked, then the response is written; nothing of a later stage      *)
(* happens before something of an earlier one.                             *)
(***************************************************************************)
Stage(e) ==
    CASE e[1] = "error" /\ e[2] \in {"url", "stream"} -> 0
      [] e[1] \in {"mw", "parser", "settled", "raised"} -> 1
      [] e[1] = "match" -> 2
      [] e[1] = "handler" -> 3
      [] OTHER -> 4

C31_StagesInSequence ==
    \A r \in Slots :
        LET q == reqs[r]
        IN /\ \A p1, p2 \in DOMAIN q.trace :
                 p1 < p2 => Stage(q.trace[p1]) <= Stage(q.trace[p2])
           /\ \A kind \in {"match", "handler", "end"} : Len(Events(q, kind)) <= 1
           /\ \A p \in DOMAIN q.trace :
                 /\ Stage(q.trace[p]) \in 1..3 =>
                       /\ q.data.path = normalizePath(Pathname(q.url))
                       /\ q.data.method = q.method
                 /\ q.trace[p][1] = "mw" =>
                       /\ q.trace[p][2] = middlewares[Before(q, p, "mw") + 1]
                       /\ Before(q, p, "settled") = Before(q, p, "mw")
                 /\ q.trace[p][1] = "match" =>
                       /\ Before(q, p, "mw") = q.mwsSeen
                       /\ Before(q, p, "settled") = q.mwsSeen
                 /\ q.trace[p][1] = "handler" => q.trace[p - 1] = <<"match", "route">>
                 /\ q.trace[p] = <<"end", "send">> => Before(q, p, "match") = 1
           /\ q.pc = "done" <=> Len(Events(q, "end")) = 1

C31_Witness ==
    \E r \in Slots :
        LET q == reqs[r]
        IN /\ q.pc = "done"
           /\ middlewares = <<"mwSync", "mwAsync">>
           /\ q.res.statusCode = 201
           /\ q.trace = <<<<"mw", "mwSync">>, <<"settled", "mwSync">>,
                          <<"mw", "mwAsync">>, <<"settled", "mwAsync">>,
                          <<"match", "route">>, <<"handler", "hEcho">>,
                          <<"end", "send">>>>

(***************************************************************************)
(* C32: the contexts of concurrent requests are isolated.  In every        *)
(* interleaving of two requests, the context of a request is what its own  *)
(* URL, method, headers and body give with the assignments of the          *)
(* middlewares invoked for that request, in the order of its own trace;    *)
(* the handler is called with, and the response is written from, the       *)
(* payload of that context; and a step of one request's pipeline changes   *)
(* nothing of the other request.                                           *)
(***************************************************************************)
Assigned(e, data) ==
    CASE e[1] = "mw" -> OnCall(e[2], data)
      [] e[1] = "settled" -> OnFulfil(e[2], data)
      [] OTHER -> data

RECURSIVE Replay(_, _)
Replay(data, trace) ==
    IF trace = <<>> THEN data ELSE Replay(Assigned(Head(trace), data), Tail(trace))

OwnContext(q) ==
    Replay([path |-> normalizePath(Pathname(q.url)), method |-> q.method,
            headers |-> q.headers, payload |-> q.body],
           q.trace)

C32_ContextIsolation ==
    /\ [](\A r \in Slots :
             LET q == reqs[r]
             IN /\ HasData(q) => q.data = OwnContext(q)
                /\ ~HasData(q) => q.data = NoData
                /\ Events(q, "handler") # <<>> => q.arg.payload = q.data.payload
                /\ q.pc = "done" /\ Events(q, "handler") = <<<<"handler", "hEcho">>>> =>
                      q.res.body = Written(OwnContext(q).payload))
    /\ [][\A r1, r2 \in Slots :
              r1 # r2 /\ reqs'[r1] # reqs[r1] => reqs'[r2] = reqs[r2]]_vars

C32_Witness ==
    /\ middlewares = <<"mwAsync">>
    /\ reqs["r1"].pc = "mwAwait" /\ reqs["r1"].data.payload = "one"
    /\ reqs["r2"].pc = "done" /\ reqs["r2"].body = "two"
    /\ reqs["r2"].data.payload = "mwAsync" /\ reqs["r2"].res.body = "mwAsync"

(***************************************************************************)
(* A request is stalled while it is at an await of its pipeline; it is     *)
(* never held up by another request when, whatever the other request is    *)
(* doing, the server takes it and each of its awaits can end.              *)
(***************************************************************************)
TimedOut(q) == \E p \in DOMAIN q.trace : q.trace[p] = <<"error", "timeout">>

Stalled(q) == q.pc \in {"reading", "mwAwait", "handlerAwait"}

NeverHeldUp ==
    \A r \in Slots :
        /\ (reqs[r].pc = "idle" /\ ~server.crashed /\ server.handle /\ server.ticks = <<>>) =>
              ENABLED Request(r, <<Slash, "echo">>, GET, {}, "")
        /\ reqs[r].pc = "reading" => ENABLED RequestEnd(r)
        /\ reqs[r].pc = "mwAwait" => ENABLED MiddlewareSettles(r)
        /\ reqs[r].pc = "handlerAwait" => ENABLED HandlerSettles(r)

C34_GroupsOnCopyOnly ==
    \A r \in Slots :
        LET q == reqs[r]
        IN /\ "groups" \notin DOMAIN q.data
           /\ Events(q, "handler") # <<>> =>
                 /\ DOMAIN q.arg = DOMAIN q.data \cup {"groups"}
                 /\ \A field \in DOMAIN q.data : q.arg[field] = q.data[field]
                 /\ LET template == Template(Latest(q))
                        params == {i \in DOMAIN template : IsParam(template[i])}
                    IN /\ DOMAIN q.arg.groups = {ParamName[template[i]] : i \in params}
                       /\ \A i \in params :
                              q.arg.groups[ParamName[template[i]]] = q.data.path[i]
           /\ LookedUp(q) => q.data = OwnContext(q)

C34_Witness ==
    \E r \in Slots :
        LET q == reqs[r]
        IN /\ q.pc = "done"
           /\ middlewares = <<"mwSync">>
           /\ Events(q, "handler") # <<>>
           /\ q.arg.groups = ("id" :> "123")
           /\ q.arg.payload = "mwSync" /\ q.data.payload = "mwSync"
           /\ DOMAIN q.data = {"path", "method", "headers", "payload"}

(***************************************************************************)
(* C35: registration only grows the route table.  The list of a method is  *)
(* made of one entry for every addHandler call made under that method (in  *)
(* upper case), the latest call first, also when a call repeats the path   *)
(* and method of an earlier one; a call puts one entry in front of the     *)
(* list of its method and leaves the entries that were there, the lists    *)
(* of the other methods and the middleware chain as they were.             *)
(***************************************************************************)
Under(key) == {k \in DOMAIN regLog : toUpperCase(regLog[k].method) = key}

Registered(k) ==
    [pattern |-> URLPattern(normalizePath(regLog[k].path)), handler |-> regLog[k].handler]

C35_TableOnlyGrows ==
    /\ [](/\ DOMAIN routes = {toUpperCase(regLog[k].method) : k \in DOMAIN regLog}
          /\ \A key \in DOMAIN routes :
                /\ Len(routes[key]) = Cardinality(Under(key))
                /\ \A k \in Under(key) :
                       routes[key][Cardinality({j \in Under(key) : j >= k})] = Registered(k))
    /\ [][routes' # routes =>
             /\ middlewares' = middlewares
             /\ DOMAIN routes \subseteq DOMAIN routes'
             /\ \E key \in DOMAIN routes' :
                   /\ routes'[key] # <<>>
                   /\ Tail(routes'[key]) = RoutesOf(key)
                   /\ \A other \in DOMAIN routes' \ {key} :
                          other \in DOMAIN routes /\ routes'[other] = routes[other]]_vars

C35_Witness ==
    /\ Len(regLog) = 2
    /\ regLog[1].path = regLog[2].path
    /\ regLog[1].method = LowerGet /\ regLog[2].method = GET
    /\ regLog[1].handler = "hEcho" /\ regLog[2].handler = "hBare"
    /\ DOMAIN routes = {GET}
    /\ Len(routes[GET]) = 2
    /\ routes[GET][1].handler = "hBare" /\ routes[GET][2].handler = "hEcho"
    /\ middlewares # <<>>

(***************************************************************************)
(* C36: every request whose body stream ends or fails and whose            *)
(* middlewares and handler settle is answered: whatever the other request  *)
(* is doing, a request that has arrived comes to have a response that has  *)
(* been ended, ended exactly once, and nothing happens to it after.        *)
(***************************************************************************)
C36_EventuallyAnswered ==
    /\ \A r \in Slots :
          (reqs[r].pc # "idle") ~> (reqs[r].pc = "done" /\ reqs[r].res.ends = 1)
    /\ [](\A r \in Slots : reqs[r].res.ends = IF reqs[r].pc = "done" THEN 1 ELSE 0)
    /\ [][\A r \in Slots : reqs[r].pc = "done" => reqs'[r] = reqs[r]]_vars

C36_Witness ==
    /\ reqs["r1"].pc = "done" /\ reqs["r1"].res.statusCode = 500
    /\ reqs["r1"].trace = <<<<"match", "route">>, <<"handler", "hReject">>, <<"end", "catch">>>>
    /\ reqs["r2"].pc = "done" /\ reqs["r2"].res.statusCode = 404
    /\ Events(reqs["r2"], "settled") = <<<<"settled", "mwAsync">>>>

(***************************************************************************)
(* C37: the route table is read at the match step.  A route registered     *)
(* while the request is in its body read or in its middleware chain is     *)
(* among the routes the match step looks at, so the handler invoked is     *)
(* that of the latest registration, made before the match step, that       *)
(* matches; a route registered after the match step is not among them,     *)
(* and no registration after the match step changes which handler the      *)
(* request has invoked.                                                    *)
(***************************************************************************)
C37_TableReadAtMatch ==
    /\ [](LET q == reqs["r1"]
          IN LookedUp(q) =>
                /\ \A k \in DOMAIN regLog :
                       /\ regLog[k].handler \in {"hEcho", "hBare"} => k <= q.regsSeen
                       /\ regLog[k].handler = "hPayload" => k > q.regsSeen
                /\ Candidates(q) # {} =>
                       Events(q, "handler") = <<<<"handler", regLog[Latest(q)].handler>>>>
                /\ Candidates(q) = {} => Events(q, "handler") = <<>>)
    /\ [][LookedUp(reqs["r1"]) =>
             /\ Events(reqs'["r1"], "handler") = Events(reqs["r1"], "handler")
             /\ reqs'["r1"].arg = reqs["r1"].arg]_vars

C37_Witness ==
    LET q == reqs["r1"]
    IN /\ q.pc = "done"
       /\ middlewares = <<"mwAsync">>
       /\ Len(regLog) = 3
       /\ regLog[1].handler = "hEcho" /\ regLog[1].path = <<Slash, "echo">>
       /\ regLog[2].handler = "hBare" /\ regLog[2].path = <<Slash, ":a">>
       /\ regLog[3].handler = "hPayload" /\ regLog[3].path = <<Slash, "echo">>
       /\ q.data.path = <<Slash, "echo">>
       /\ Events(q, "handler") = <<<<"handler", "hBare">>>>

(***************************************************************************)
(* C38: the middleware chain is iterated live.  The middlewares invoked    *)
(* for a request are at every moment a prefix of the chain as it is now,   *)
(* in its order; a middleware appended while the request awaits a          *)
(* middleware of its chain is invoked for that request, after the ones     *)
(* registered earlier and before the route lookup; one appended after the  *)
(* lookup is not invoked for it.                                           *)
(***************************************************************************)
C38_ChainIteratedLive ==
    LET q == reqs["r1"]
        invoked == Events(q, "mw")
    IN /\ Len(invoked) <= Len(middlewares)
       /\ invoked = [j \in 1..Len(invoked) |-> <<"mw", middlewares[j]>>]
       /\ LookedUp(q) =>
             /\ Len(invoked) = q.mwsSeen
             /\ \A j \in DOMAIN middlewares :
                    /\ middlewares[j] \in {"mwSync", "mwAsync"} => j <= q.mwsSeen
                    /\ middlewares[j] = "mwReject" => j > q.mwsSeen
             /\ \A p \in DOMAIN q.trace :
                    q.trace[p][1] = "match" =>
                       /\ Before(q, p, "mw") = q.mwsSeen
                       /\ Before(q, p, "settled") = q.mwsSeen

C38_Witness ==
    LET q == reqs["r1"]
    IN /\ q.pc = "done"
       /\ q.res.statusCode = 201
       /\ middlewares = <<"mwSync", "mwAsync", "mwReject">>
       /\ q.trace = <<<<"mw", "mwSync">>, <<"settled", "mwSync">>,
                      <<"mw", "mwAsync">>, <<"settled", "mwAsync">>,
                      <<"match", "route">>, <<"handler", "hEcho">>,
                      <<"end", "send">>>>

(***************************************************************************)
(* C39: when writing the payload fails, after the status, the Content-Type *)
(* and the headers of the handler result have been set on the response,    *)
(* the response that is sent has status 500 and the message of the error   *)
(* as its body, and still carries the Content-Type and the headers taken   *)
(* from the handler result.                                                *)
(***************************************************************************)
WriteFailed(q) ==
    /\ q.pc = "done"
    /\ Events(q, "error") = <<<<"error", "end">>>>

C39_HeadersSurviveFailure ==
    \A r \in Slots :
        LET q == reqs[r]
            result == HandlerResult(Events(q, "handler")[1][2], q.arg)
        IN WriteFailed(q) =>
              /\ Len(Events(q, "handler")) = 1
              /\ result.payload \in NonStrings
              /\ q.res.statusCode = 500
              /\ q.res.body = InvalidChunkMessage
              /\ q.res.ends = 1
              /\ q.res.contentType = IF result.contentType # ""
                                     THEN result.contentType ELSE CONTENT_TYPES.JSON
              /\ q.res.headers = {result.headers.entries[i] :
                                      i \in DOMAIN result.headers.entries}

C39_Witness ==
    \E r \in Slots :
        LET q == reqs[r]
        IN /\ WriteFailed(q)
           /\ Events(q, "handler") = <<<<"handler", "hObjectHeader">>>>
           /\ q.res.statusCode = 500
           /\ q.res.body = InvalidChunkMessage
           /\ q.res.contentType = "text/plain"
           /\ q.res.headers = {XMulti, OhNo}

(***************************************************************************)
(* C40: the Body Parser classifies a request by comparing its content-type *)
(* header with the text content type as a whole string.  Only a request    *)
(* whose header is exactly text/plain is read as text; a request with any  *)
(* other header value, text/plain with parameters and unknown types        *)
(* included, is read as JSON once it has come to the middleware chain,     *)
(* and when its body is not empty and not JSON no handler is invoked for   *)
(* it and it is done, its body read to the end, with status 500.           *)
(***************************************************************************)
OtherThanText(q) ==
    Header(q.headers, "content-type") \notin {Undefined, "text/plain"}

C40_ExactContentType ==
    \A r \in Slots :
        LET q == reqs[r]
        IN /\ (\E p \in DOMAIN q.trace : q.trace[p] = <<"parser", "parseText">>)
                 => Header(q.headers, "content-type") = "text/plain"
           /\ (OtherThanText(q) /\ LookedUp(q))
                 => \E p \in DOMAIN q.trace : q.trace[p] = <<"parser", "parseJSON">>
           /\ (/\ OtherThanText(q)
               /\ q.body # ""
               /\ JsonParse(q.body) = SyntaxError)
              => /\ Events(q, "handler") = <<>>
                 /\ (q.pc = "done" /\ HasData(q)) => q.res.statusCode = 500

====
